---- MODULE Spec2Model ----
(***************************************************************************)
(* A model of the awesome-list-view parsing core: tag normalisation and    *)
(* inheritance (app/funcs/tag_processor.py) and the markdown parser        *)
(* (app/funcs/markdown_parser.py).                                         *)
(*                                                                         *)
(* A Python str is modelled as a sequence of one-character strings, so     *)
(* that the regular expressions and the str methods of the code are        *)
(* computed character by character, as the code computes them.             *)
(***************************************************************************)
EXTENDS Naturals, Integers, Sequences, FiniteSets, TLC

VARIABLES
    pc,          \* position of the call under study
    tag,         \* normalize_tag: the raw tag
    once,        \* normalize_tag(tag)
    twice,       \* normalize_tag(normalize_tag(tag))
    inline,      \* inherit_tags: item["tags"]
    section,     \* inherit_tags: section_tags
    front,       \* inherit_tags: frontmatter_tags
    inherited,   \* inherit_tags: the returned list
    content,     \* the markdown text handed to the parser
    position,    \* get_ancestor_tags / build_section_names: item_position
    headings,    \* extract_headings(content)
    ancestor_tags,  \* get_ancestor_tags(headings, position)
    sections,    \* build_section_names(headings, position)
    metadata,    \* parse_frontmatter(content)[0]
    body,        \* parse_frontmatter(content)[1]
    item_text,   \* parse_item_content: the text of one bullet
    item_urls,   \* extract_urls(item_text)
    item_parsed, \* parse_item_content(item_text)
    document,    \* parse_markdown_content(content)
    files,       \* the markdown files on disk, by path
    paths,       \* parse_all_files / generate_awesome_list_json: the paths
    exclude_tags,   \* generate_awesome_list_json: exclude_tags
    awesome_lists,  \* the parsed (and filtered) AwesomeList records
    errors,      \* parse_all_files: the error messages
    cache_text,  \* the JSON text written to the cache file
    loader,      \* DataLoader after load_cache_data
    _all_items,  \* FilterManager: the items as given
    _exclude_tags,      \* FilterManager: the set of excluded tags
    _items,      \* FilterManager: the items without the excluded ones
    _selected_tags,     \* FilterManager: the set of selected tags
    _selected_topics,   \* FilterManager: the set of selected topics
    _filter_mode,       \* FilterManager: "and" or "or"
    _tag_counts,        \* FilterManager: tag -> number of occurrences
    _topic_counts,      \* FilterManager: topic -> number of items
    _filtered_items,    \* FilterManager: the list get_filtered_items returns
    _search_filtered_items,  \* FilterManager: the search results
    walk_line,   \* single-pass walk: the number of body lines streamed
    heading_stack,      \* single-pass walk: the live heading stack
    walk_items,  \* single-pass walk: what the walk gave each item so far
    item_blocks, \* extract_list_items(content, headings)
    dialog,      \* the filter dialog on screen, if any
    operation_log,      \* CacheManagementModal.operation_log
    log_added,   \* every message handed to add_log_message, in order
    cache_file,  \* the cache file on disk
    clock,       \* the time, in the unit of st_mtime
    data_loader, \* the DataLoader singleton
    load_result  \* what the last load_cache_data returned

normVars == <<tag, once, twice>>
inheritVars == <<inline, section, front, inherited>>
headingVars == <<content, position, headings, ancestor_tags, sections>>
headingOut == <<position, headings, ancestor_tags, sections>>
frontVars == <<metadata, body>>
itemVars == <<item_text, item_urls, item_parsed>>
batchVars == <<files, paths, exclude_tags, awesome_lists, errors, cache_text, loader>>
filterVars ==
    <<_all_items, _exclude_tags, _items, _selected_tags, _selected_topics, _filter_mode,
      _tag_counts, _topic_counts, _filtered_items, _search_filtered_items>>
walkVars == <<walk_line, heading_stack, walk_items>>
listVars == <<item_blocks>>
dialogVars == <<dialog>>
logVars == <<operation_log, log_added>>
loadVars == <<cache_file, clock, data_loader, load_result>>
moreVars == <<listVars, dialogVars, logVars, loadVars>>
restVars == <<batchVars, filterVars, walkVars, moreVars>>
vars == <<pc, normVars, inheritVars, headingVars, frontVars, itemVars, document, restVars>>

(***************************************************************************)
(* Characters and the str methods the code uses.                           *)
(***************************************************************************)
NL == "\n"
TAB == "\t"

LowerLetters ==
    <<"a","b","c","d","e","f","g","h","i","j","k","l","m",
      "n","o","p","q","r","s","t","u","v","w","x","y","z">>
UpperLetters ==
    <<"A","B","C","D","E","F","G","H","I","J","K","L","M",
      "N","O","P","Q","R","S","T","U","V","W","X","Y","Z">>
Digits == {"0","1","2","3","4","5","6","7","8","9"}

Range(f) == {f[i] : i \in DOMAIN f}

\* str.isspace of one character (the characters \s matches)
IsSpace(c) == c \in {" ", TAB, NL}

\* [a-zA-Z0-9_] : what \w matches on the ASCII characters of the model
IsWord(c) == c \in Range(LowerLetters) \cup Range(UpperLetters) \cup Digits \cup {"_"}

\* [a-zA-Z0-9_-] : the character class of the #tag pattern
IsTagChar(c) == IsWord(c) \/ c = "-"

\* str.lower of one character
LowerChar(c) ==
    IF c \in Range(UpperLetters)
    THEN LowerLetters[CHOOSE i \in DOMAIN UpperLetters : UpperLetters[i] = c]
    ELSE c

\* str.lower
Lower(s) == [i \in DOMAIN s |-> LowerChar(s[i])]

\* s[a..b] (1-based, inclusive; empty when b < a)
Slice(s, a, b) == IF b < a THEN <<>> ELSE SubSeq(s, a, b)

\* str.lstrip / str.rstrip / str.strip over a set of characters
RECURSIVE LStripSet(_, _)
LStripSet(s, cs) ==
    IF s # <<>> /\ Head(s) \in cs THEN LStripSet(Tail(s), cs) ELSE s

RECURSIVE RStripSet(_, _)
RStripSet(s, cs) ==
    IF s # <<>> /\ s[Len(s)] \in cs THEN RStripSet(Slice(s, 1, Len(s) - 1), cs) ELSE s

StripSet(s, cs) == RStripSet(LStripSet(s, cs), cs)

\* str.strip() with no argument: strips whitespace
Strip(s) == StripSet(s, {" ", TAB, NL})

\* str.startswith
StartsWith(s, p) == Len(s) >= Len(p) /\ SubSeq(s, 1, Len(p)) = p

\* p occurs in s at index i
OccursAt(s, p, i) == i >= 1 /\ i + Len(p) - 1 <= Len(s) /\ SubSeq(s, i, i + Len(p) - 1) = p

\* all sequences over S of length at most n
SeqsUpTo(S, n) == UNION {[1..k -> S] : k \in 0..n}

(***************************************************************************)
(* tag_processor.normalize_tag                                             *)
(***************************************************************************)
\* re.sub(r"[^\w-]", "-", s)
SubNonTagChars(s) == [i \in DOMAIN s |-> IF IsTagChar(s[i]) THEN s[i] ELSE "-"]

\* re.sub(r"-+", "-", s)
RECURSIVE CollapseHyphens(_)
CollapseHyphens(s) ==
    IF s = <<>> THEN <<>>
    ELSE IF Head(s) = "-"
         THEN <<"-">> \o CollapseHyphens(LStripSet(s, {"-"}))
         ELSE <<Head(s)>> \o CollapseHyphens(Tail(s))

\* normalize_tag with the hyphens stripped before the substitution instead of after
normalize_tag_strip_early(t) ==
    IF t = <<>> THEN <<>>
    ELSE LET stripped == Strip(t)
             lowered == Lower(stripped)
             unhashed == IF StartsWith(lowered, <<"#">>) THEN Tail(lowered) ELSE lowered
         IN  CollapseHyphens(SubNonTagChars(StripSet(unhashed, {"-"})))

normalize_tag(t) ==
    IF t = <<>> THEN <<>>
    ELSE LET stripped == Strip(t)
             lowered == Lower(stripped)
             unhashed == IF StartsWith(lowered, <<"#">>) THEN Tail(lowered) ELSE lowered
             hyphened == SubNonTagChars(unhashed)
             collapsed == CollapseHyphens(hyphened)
         IN  StripSet(collapsed, {"-"})

(***************************************************************************)
(* tag_processor.filter_meaningful_tags and inherit_tags                   *)
(***************************************************************************)
awesome == <<"a","w","e","s","o","m","e">>

excluded_tags == {awesome}

\* filter_meaningful_tags that filters nothing
filter_meaningful_tags_none(tags) == tags

filter_meaningful_tags(tags) ==
    SelectSeq(tags, LAMBDA t : Lower(t) \notin excluded_tags)

\* is x an element of the list
InList(x, list) == \E i \in DOMAIN list : list[i] = x

\* one "for tag in ...: normalized = normalize_tag(tag); if normalized and
\* normalized not in all_tags: all_tags.append(normalized)" loop
RECURSIVE AppendNormalized(_, _)
AppendNormalized(all_tags, raw) ==
    IF raw = <<>> THEN all_tags
    ELSE LET normalized == normalize_tag(Head(raw))
         IN  AppendNormalized(
                 IF normalized # <<>> /\ ~InList(normalized, all_tags)
                 THEN Append(all_tags, normalized)
                 ELSE all_tags,
                 Tail(raw))

\* inherit_tags that adds the section tags before the inline tags
inherit_tags_section_first(inline_tags, section_tags, frontmatter_tags) ==
    LET afterSection == AppendNormalized(<<>>, section_tags)
        afterInline == AppendNormalized(afterSection, inline_tags)
        afterFront == AppendNormalized(afterInline, frontmatter_tags)
    IN  filter_meaningful_tags(afterFront)

inherit_tags(inline_tags, section_tags, frontmatter_tags) ==
    LET afterInline == AppendNormalized(<<>>, inline_tags)
        afterSection == AppendNormalized(afterInline, section_tags)
        afterFront == AppendNormalized(afterSection, frontmatter_tags)
    IN  filter_meaningful_tags(afterFront)

(***************************************************************************)
(* markdown_parser.parse_heading_tags and extract_headings                 *)
(***************************************************************************)
\* the length of the longest prefix of s whose characters all satisfy the
\* class membership c \in cs
RECURSIVE RunIn(_, _)
RunIn(s, cs) == IF s # <<>> /\ Head(s) \in cs THEN 1 + RunIn(Tail(s), cs) ELSE 0

\* the length of the longest prefix of s of tag characters: [a-zA-Z0-9_-]+
RECURSIVE TagRun(_)
TagRun(s) == IF s # <<>> /\ IsTagChar(Head(s)) THEN 1 + TagRun(Tail(s)) ELSE 0

\* the length of the longest prefix of s of whitespace: \s+
RECURSIVE SpaceRun(_)
SpaceRun(s) == IF s # <<>> /\ IsSpace(Head(s)) THEN 1 + SpaceRun(Tail(s)) ELSE 0

\* s without its first n characters
Drop(s, n) == Slice(s, n + 1, Len(s))

\* re.findall(r"#([a-zA-Z0-9_-]+)", s)
RECURSIVE FindTags(_)
FindTags(s) ==
    IF s = <<>> THEN <<>>
    ELSE IF Head(s) = "#" /\ TagRun(Tail(s)) >= 1
         THEN <<Slice(s, 2, 1 + TagRun(Tail(s)))>> \o FindTags(Drop(s, 1 + TagRun(Tail(s))))
         ELSE FindTags(Tail(s))

\* re.sub(r"#([a-zA-Z0-9_-]+)", "", s)
RECURSIVE RemoveTags(_)
RemoveTags(s) ==
    IF s = <<>> THEN <<>>
    ELSE IF Head(s) = "#" /\ TagRun(Tail(s)) >= 1
         THEN RemoveTags(Drop(s, 1 + TagRun(Tail(s))))
         ELSE <<Head(s)>> \o RemoveTags(Tail(s))

\* re.sub(r"\s+", " ", s)
RECURSIVE CollapseSpaces(_)
CollapseSpaces(s) ==
    IF s = <<>> THEN <<>>
    ELSE IF IsSpace(Head(s))
         THEN <<" ">> \o CollapseSpaces(Drop(s, SpaceRun(s)))
         ELSE <<Head(s)>> \o CollapseSpaces(Tail(s))

\* parse_heading_tags: <<clean_text, tags>>
parse_heading_tags(heading_text) ==
    <<CollapseSpaces(Strip(RemoveTags(heading_text))), FindTags(heading_text)>>

\* str.split("\n"): the texts between the newlines of s
SplitLines(s) ==
    LET newlines == {i \in DOMAIN s : s[i] = NL}
        Nth(k) == CHOOSE i \in newlines : Cardinality({j \in newlines : j < i}) = k - 1
        count == Cardinality(newlines)
    IN  [k \in 1..(count + 1) |->
            Slice(s, IF k = 1 THEN 1 ELSE Nth(k - 1) + 1,
                     IF k = count + 1 THEN Len(s) ELSE Nth(k) - 1)]

\* "\n".join(lines)
RECURSIVE JoinLines(_)
JoinLines(lines) ==
    IF lines = <<>> THEN <<>>
    ELSE IF Len(lines) = 1 THEN lines[1]
         ELSE lines[1] \o <<NL>> \o JoinLines(Tail(lines))

\* the pattern without the upper limit on the hashes
HeadingMatches_any_level(line) ==
    LET hashes == RunIn(line, {"#"})
    IN  /\ hashes >= 1
        /\ SpaceRun(Drop(line, hashes)) >= 1
        /\ Drop(line, hashes + SpaceRun(Drop(line, hashes))) # <<>>

\* re.match(r"^(#{1,6})\s+(.+)$", line): TRUE when the pattern matches.  The
\* line is stripped, so whitespace after the hashes is followed by text.
HeadingMatches(line) ==
    LET hashes == RunIn(line, {"#"})
    IN  /\ hashes >= 1
        /\ hashes <= 6
        /\ SpaceRun(Drop(line, hashes)) >= 1
        /\ Drop(line, hashes + SpaceRun(Drop(line, hashes))) # <<>>

\* the groups (hashes, text) of the match, as <<level, text>>
HeadingGroups(line) ==
    LET hashes == RunIn(line, {"#"})
    IN  <<hashes, Drop(line, hashes + SpaceRun(Drop(line, hashes)))>>

\* the loop of extract_headings over enumerate(lines, 1), from line line_num
RECURSIVE HeadingsFrom(_, _)
HeadingsFrom(lines, line_num) ==
    IF line_num > Len(lines) THEN <<>>
    ELSE LET line == Strip(lines[line_num])
         IN  (IF HeadingMatches(line)
              THEN LET groups == HeadingGroups(line)
                       parsed == parse_heading_tags(groups[2])
                   IN  << [level |-> groups[1],
                           text |-> groups[2],
                           clean_text |-> parsed[1],
                           tags |-> parsed[2],
                           line_number |-> line_num] >>
              ELSE <<>>)
             \o HeadingsFrom(lines, line_num + 1)

extract_headings(c) == HeadingsFrom(SplitLines(c), 1)

(***************************************************************************)
(* tag_processor.get_ancestor_tags and build_section_names                 *)
(***************************************************************************)
\* the headings that come before the item
RelevantHeadings(heading_hierarchy, item_position) ==
    SelectSeq(heading_hierarchy, LAMBDA h : h.line_number < item_position)

\* the headings that come before or on the line of the item
RelevantHeadings_inclusive(heading_hierarchy, item_position) ==
    SelectSeq(heading_hierarchy, LAMBDA h : h.line_number <= item_position)

\* one round of the loop with the comparison turned round: the shallower
\* levels are cleared and the deeper ones stay
RecordHeading_clears_shallower(current_headings, heading) ==
    LET level == heading.level
        levels_to_clear == {level_key \in DOMAIN current_headings : level_key <= level}
    IN  [k \in (DOMAIN current_headings \ levels_to_clear) \cup {level} |->
            IF k = level THEN heading ELSE current_headings[k]]

\* one round of the loop over relevant_headings: clear the levels >= level,
\* then current_headings[level] = heading
RecordHeading(current_headings, heading) ==
    LET level == heading.level
        levels_to_clear == {level_key \in DOMAIN current_headings : level_key >= level}
    IN  [k \in (DOMAIN current_headings \ levels_to_clear) \cup {level} |->
            IF k = level THEN heading ELSE current_headings[k]]

\* one round of the loop that clears nothing
RecordHeading_no_clear(current_headings, heading) ==
    [k \in DOMAIN current_headings \cup {heading.level} |->
        IF k = heading.level THEN heading ELSE current_headings[k]]

RECURSIVE CurrentHeadings(_, _)
CurrentHeadings(current_headings, relevant_headings) ==
    IF relevant_headings = <<>> THEN current_headings
    ELSE CurrentHeadings(RecordHeading(current_headings, Head(relevant_headings)),
                         Tail(relevant_headings))

RECURSIVE CurrentHeadings_no_clear(_, _)
CurrentHeadings_no_clear(current_headings, relevant_headings) ==
    IF relevant_headings = <<>> THEN current_headings
    ELSE CurrentHeadings_no_clear(
             RecordHeading_no_clear(current_headings, Head(relevant_headings)),
             Tail(relevant_headings))

\* sorted(keys)
RECURSIVE Sorted(_)
Sorted(keys) ==
    IF keys = {} THEN <<>>
    ELSE LET least == CHOOSE k \in keys : \A other \in keys : k <= other
         IN  <<least>> \o Sorted(keys \ {least})

\* the loop of get_ancestor_tags over sorted(current_headings.keys())
RECURSIVE CollectTags(_, _, _)
CollectTags(tags, levels, current_headings) ==
    IF levels = <<>> THEN tags
    ELSE CollectTags(
             IF Head(levels) >= 2
             THEN AppendNormalized(tags, current_headings[Head(levels)].tags)
             ELSE tags,
             Tail(levels), current_headings)

\* get_ancestor_tags with the heading on the item's own line taken as relevant
get_ancestor_tags_inclusive(heading_hierarchy, item_position) ==
    LET relevant_headings == RelevantHeadings_inclusive(heading_hierarchy, item_position)
    IN  IF relevant_headings = <<>> THEN <<>>
        ELSE LET current_headings == CurrentHeadings(<<>>, relevant_headings)
             IN  CollectTags(<<>>, Sorted(DOMAIN current_headings), current_headings)

get_ancestor_tags(heading_hierarchy, item_position) ==
    LET relevant_headings == RelevantHeadings(heading_hierarchy, item_position)
    IN  IF relevant_headings = <<>> THEN <<>>
        ELSE LET current_headings == CurrentHeadings(<<>>, relevant_headings)
             IN  CollectTags(<<>>, Sorted(DOMAIN current_headings), current_headings)

\* the loop of build_section_names over sorted(current_headings.keys())
RECURSIVE CollectSections(_, _, _)
CollectSections(names, levels, current_headings) ==
    IF levels = <<>> THEN names
    ELSE CollectSections(
             IF Head(levels) >= 2 /\ current_headings[Head(levels)].clean_text # <<>>
             THEN Append(names, current_headings[Head(levels)].clean_text)
             ELSE names,
             Tail(levels), current_headings)

\* build_section_names that never clears the deeper levels
build_section_names_no_clear(heading_hierarchy, item_position) ==
    LET relevant_headings == RelevantHeadings(heading_hierarchy, item_position)
    IN  IF relevant_headings = <<>> THEN <<>>
        ELSE LET current_headings == CurrentHeadings_no_clear(<<>>, relevant_headings)
             IN  CollectSections(<<>>, Sorted(DOMAIN current_headings), current_headings)

build_section_names(heading_hierarchy, item_position) ==
    LET relevant_headings == RelevantHeadings(heading_hierarchy, item_position)
    IN  IF relevant_headings = <<>> THEN <<>>
        ELSE LET current_headings == CurrentHeadings(<<>>, relevant_headings)
             IN  CollectSections(<<>>, Sorted(DOMAIN current_headings), current_headings)

(***************************************************************************)
(* markdown_parser.parse_frontmatter                                       *)
(*                                                                         *)
(* A Python value is a record [kind, value]: a dict ("map", a function     *)
(* from keys to values), a list ("seq"), a str ("scalar").                 *)
(***************************************************************************)
EmptyDict == [kind |-> "map", value |-> <<>>]

Dashes == <<"-","-","-">>

\* the positions of the newlines in the run of whitespace of c that starts
\* at index start: where "\s*\n" can end when \s* starts at start
NewlinesInRun(c, start) ==
    {a \in start..(start + SpaceRun(Drop(c, start - 1)) - 1) : c[a] = NL}

\* "\n---\s*\n" matches at index j of c
ClosesAt(c, j) ==
    /\ j >= 1 /\ j <= Len(c) /\ c[j] = NL
    /\ OccursAt(c, Dashes, j + 1)
    /\ NewlinesInRun(c, j + 4) # {}

Max(S) == CHOOSE x \in S : \A y \in S : y <= x
Min(S) == CHOOSE x \in S : \A y \in S : x <= y

\* the newlines at which "^---\s*\n" can end with the rest of the pattern
\* matching after it
OpeningEnds(c) ==
    IF OccursAt(c, Dashes, 1)
    THEN {a \in NewlinesInRun(c, 4) : \E j \in (a + 1)..Len(c) : ClosesAt(c, j)}
    ELSE {}

\* re.match(r"^---\s*\n(.*?)\n---\s*\n", content, re.DOTALL): \s* is greedy,
\* (.*?) is lazy, the closing \s* is greedy
FrontmatterMatches(c) == OpeningEnds(c) # {}

\* match.group(1) and match.end() of a match
FrontmatterGroup(c) ==
    LET a == Max(OpeningEnds(c))
        j == Min({k \in (a + 1)..Len(c) : ClosesAt(c, k)})
    IN  [group1 |-> Slice(c, a + 1, j - 1), end |-> Max(NewlinesInRun(c, j + 4))]

\* the number of occurrences of the character ch in s
RECURSIVE CountChar(_, _)
CountChar(s, ch) ==
    IF s = <<>> THEN 0 ELSE (IF Head(s) = ch THEN 1 ELSE 0) + CountChar(Tail(s), ch)

\* str.split(sep) for a one-character separator, from the accumulated part cur
RECURSIVE SplitOn(_, _, _)
SplitOn(s, sep, cur) ==
    IF s = <<>> THEN <<cur>>
    ELSE IF Head(s) = sep
         THEN <<cur>> \o SplitOn(Tail(s), sep, <<>>)
         ELSE SplitOn(Tail(s), sep, Append(cur, Head(s)))

\* the index of the first ":" of line that ends the line or precedes a space,
\* 0 when there is none: the indicator of a block mapping entry
KeyEnd(line) ==
    LET colons == {i \in DOMAIN line : line[i] = ":" /\ (i = Len(line) \/ line[i + 1] = " ")}
    IN  IF colons = {} THEN 0 ELSE Min(colons)

YamlLineClass(line) ==
    IF StartsWith(line, <<"-"," ">>) \/ line = <<"-">> THEN "seq"
    ELSE IF KeyEnd(line) > 1 THEN "map"
    ELSE "plain"

\* the value of a mapping entry: a flow sequence [a, b] or a plain scalar
YamlValue(text) ==
    LET t == Strip(text)
    IN  IF t # <<>> /\ Head(t) = "[" /\ t[Len(t)] = "]"
        THEN LET inner == Strip(Slice(t, 2, Len(t) - 1))
                 parts == SplitOn(inner, ",", <<>>)
             IN  [kind |-> "seq",
                  value |-> IF inner = <<>> THEN <<>>
                            ELSE [i \in DOMAIN parts |-> Strip(parts[i])]]
        ELSE [kind |-> "scalar", value |-> t]

\* yaml.safe_load on the dialect of the model: unindented lines that are
\* blank, comments, "key: value" entries, "- value" entries or plain text,
\* after an optional "---" document marker.  The result is a record [error,
\* kind, value]; error stands for yaml.YAMLError, kind "none" for None.
yaml_safe_load(text) ==
    LET raw == SplitLines(text)
        doc == IF Strip(raw[1]) = Dashes THEN Tail(raw) ELSE raw
        entries == SelectSeq(doc, LAMBDA l : Strip(l) # <<>> /\ Head(Strip(l)) # "#")
        classes == {YamlLineClass(Strip(entries[i])) : i \in DOMAIN entries}
        flat == JoinLines(entries)
        keys == {Slice(Strip(entries[i]), 1, KeyEnd(Strip(entries[i])) - 1) : i \in DOMAIN entries}
        LastOf(key) ==
            LET l == Strip(entries[Max({i \in DOMAIN entries :
                        Slice(Strip(entries[i]), 1, KeyEnd(Strip(entries[i])) - 1) = key})])
            IN  YamlValue(Drop(l, KeyEnd(l)))
    IN  IF \/ CountChar(flat, "[") # CountChar(flat, "]")
           \/ Cardinality(classes) > 1
           \/ \E i \in DOMAIN entries : Strip(entries[i]) = Dashes
        THEN [error |-> TRUE, kind |-> "none", value |-> <<>>]
        ELSE IF classes = {} THEN [error |-> FALSE, kind |-> "none", value |-> <<>>]
        ELSE IF classes = {"map"}
             THEN [error |-> FALSE, kind |-> "map", value |-> [k \in keys |-> LastOf(k)]]
        ELSE IF classes = {"seq"}
             THEN [error |-> FALSE, kind |-> "seq",
                   value |-> [i \in DOMAIN entries |-> Strip(Drop(Strip(entries[i]), 1))]]
        ELSE [error |-> FALSE, kind |-> "scalar", value |-> Strip(flat)]

\* "yaml.safe_load(yaml_content) or {}": None and the other falsy values
\* give the empty dict
LoadedOrEmpty(loaded) ==
    IF loaded.kind = "none" \/ loaded.value = <<>> THEN EmptyDict
    ELSE [kind |-> loaded.kind, value |-> loaded.value]

\* parse_frontmatter that returns the stripped text when the YAML is malformed
parse_frontmatter_strips_on_error(c) ==
    IF ~FrontmatterMatches(c) THEN <<EmptyDict, c>>
    ELSE LET match == FrontmatterGroup(c)
             loaded == yaml_safe_load(match.group1)
         IN  IF loaded.error THEN <<EmptyDict, Drop(c, match.end)>>
             ELSE <<LoadedOrEmpty(loaded), Drop(c, match.end)>>

\* parse_frontmatter: <<frontmatter, remaining_content>>
parse_frontmatter(c) ==
    IF ~FrontmatterMatches(c) THEN <<EmptyDict, c>>
    ELSE LET match == FrontmatterGroup(c)
             yaml_content == match.group1
             remaining_content == Drop(c, match.end)
             loaded == yaml_safe_load(yaml_content)
         IN  IF loaded.error THEN <<EmptyDict, c>>
             ELSE <<LoadedOrEmpty(loaded), remaining_content>>

(***************************************************************************)
(* markdown_parser.extract_urls and parse_item_content                     *)
(***************************************************************************)
\* the length of the longest prefix of s with no character of cs: [^...]+
RECURSIVE RunNotIn(_, _)
RunNotIn(s, cs) == IF s # <<>> /\ Head(s) \notin cs THEN 1 + RunNotIn(Tail(s), cs) ELSE 0

\* the length of the match of "https?://" at the start of s, 0 when none
SchemeLen(s) ==
    IF StartsWith(s, <<"h","t","t","p","s",":","/","/">>) THEN 8
    ELSE IF StartsWith(s, <<"h","t","t","p",":","/","/">>) THEN 7
    ELSE 0

\* the length of the match of r"<(https?://[^\s>]+)>" at the start of s, 0
\* when it does not match there
AngleMatchLen(s) ==
    IF s = <<>> \/ Head(s) # "<" \/ SchemeLen(Tail(s)) = 0 THEN 0
    ELSE LET scheme == SchemeLen(Tail(s))
             run == RunNotIn(Drop(s, 1 + scheme), {" ", TAB, NL, ">"})
         IN  IF run >= 1 /\ Len(s) >= 2 + scheme + run /\ s[2 + scheme + run] = ">"
             THEN 2 + scheme + run
             ELSE 0

\* re.findall(angle_pattern, s): the group of each match
RECURSIVE FindAngle(_)
FindAngle(s) ==
    IF s = <<>> THEN <<>>
    ELSE IF AngleMatchLen(s) > 0
         THEN <<Slice(s, 2, AngleMatchLen(s) - 1)>> \o FindAngle(Drop(s, AngleMatchLen(s)))
         ELSE FindAngle(Tail(s))

\* the length of the match of r"(?<!<)(https?://[^\s<>]+)(?![>])" at the
\* start of s, which the character prev precedes; 0 when it does not match.
\* The greedy run gives back its last character when ">" follows it.
BareMatchLen(s, prev) ==
    IF prev = "<" \/ SchemeLen(s) = 0 THEN 0
    ELSE LET scheme == SchemeLen(s)
             run == RunNotIn(Drop(s, scheme), {" ", TAB, NL, "<", ">"})
             followed == Len(s) > scheme + run /\ s[scheme + run + 1] = ">"
         IN  IF run >= 1 /\ ~followed THEN scheme + run
             ELSE IF run >= 2 THEN scheme + run - 1
             ELSE 0

\* re.findall(bare_pattern, s), s preceded by the character prev
RECURSIVE FindBare(_, _)
FindBare(s, prev) ==
    IF s = <<>> THEN <<>>
    ELSE IF BareMatchLen(s, prev) > 0
         THEN <<Slice(s, 1, BareMatchLen(s, prev))>>
                  \o FindBare(Drop(s, BareMatchLen(s, prev)), s[BareMatchLen(s, prev)])
         ELSE FindBare(Tail(s), Head(s))

\* the match of r"\[([^\]]+)\]\(([^)]+)\)" at the start of s: its length (0
\* when it does not match there) and its second group
MarkdownMatch(s) ==
    IF s = <<>> \/ Head(s) # "[" THEN [len |-> 0, url |-> <<>>]
    ELSE LET text == RunNotIn(Tail(s), {"]"})
             rest == Drop(s, 1 + text)
             url == RunNotIn(Drop(rest, 2), {")"})
         IN  IF /\ text >= 1
                /\ StartsWith(rest, <<"]", "(">>)
                /\ url >= 1
                /\ Len(rest) >= 3 + url
                /\ rest[3 + url] = ")"
             THEN [len |-> 1 + text + 3 + url, url |-> Slice(rest, 3, 2 + url)]
             ELSE [len |-> 0, url |-> <<>>]

\* [match[1] for match in re.findall(markdown_pattern, s)]
RECURSIVE FindMarkdown(_)
FindMarkdown(s) ==
    IF s = <<>> THEN <<>>
    ELSE IF MarkdownMatch(s).len > 0
         THEN <<MarkdownMatch(s).url>> \o FindMarkdown(Drop(s, MarkdownMatch(s).len))
         ELSE FindMarkdown(Tail(s))

\* extract_urls that looks for the bare URLs before the bracketed ones
extract_urls_bare_first(text) ==
    FindBare(text, "") \o FindAngle(text) \o FindMarkdown(text)

extract_urls(text) ==
    FindAngle(text) \o FindBare(text, "") \o FindMarkdown(text)

\* str.replace(old, ""), old not empty
RECURSIVE Remove(_, _)
Remove(s, old) ==
    IF Len(s) < Len(old) THEN s
    ELSE IF StartsWith(s, old) THEN Remove(Drop(s, Len(old)), old)
         ELSE <<Head(s)>> \o Remove(Tail(s), old)

\* the loop "for url in urls: text = text.replace(url, '').replace('<>', '')"
RECURSIVE RemoveUrls(_, _)
RemoveUrls(text, urls) ==
    IF urls = <<>> THEN text
    ELSE RemoveUrls(Remove(Remove(text, Head(urls)), <<"<", ">">>), Tail(urls))

\* sep.join(parts)
RECURSIVE JoinWith(_, _)
JoinWith(parts, sep) ==
    IF parts = <<>> THEN <<>>
    ELSE IF Len(parts) = 1 THEN parts[1]
         ELSE parts[1] \o sep \o JoinWith(Tail(parts), sep)

\* [part.strip() for part in text.split("\n") if part.strip()]
TextParts(text) ==
    LET parts == SplitLines(text)
        kept == SelectSeq(parts, LAMBDA part : Strip(part) # <<>>)
    IN  [i \in DOMAIN kept |-> Strip(kept[i])]

\* parse_item_content, the tuple (title, description, link, tags) as a record
parse_item_content(full_text) ==
    LET urls == extract_urls(full_text)
        link == IF urls # <<>> THEN urls[1] ELSE <<>>
        text_without_urls == RemoveUrls(full_text, urls)
        tags == FindTags(text_without_urls)
        text_without_tags == RemoveTags(text_without_urls)
        text_parts == TextParts(text_without_tags)
    IN  IF text_parts = <<>>
        THEN [title |-> <<>>, description |-> <<>>, link |-> link, tags |-> tags]
        ELSE [title |-> text_parts[1],
              description |-> IF Len(text_parts) > 1
                              THEN JoinWith(Tail(text_parts), <<" ">>)
                              ELSE <<>>,
              link |-> link,
              tags |-> tags]

(***************************************************************************)
(* markdown_parser.extract_list_items, process_item and                    *)
(* parse_markdown_content                                                  *)
(***************************************************************************)
\* re.match(r"^[\s]*[-*]\s+(.+)$", line): TRUE when the pattern matches
BulletMatches(line) ==
    LET lead == SpaceRun(line)
        after == Drop(line, lead + 1)
    IN  /\ Len(line) > lead
        /\ line[lead + 1] \in {"-", "*"}
        /\ SpaceRun(after) >= 1
        /\ Len(after) >= 2

\* bullet_match.group(1): the text after the whitespace that follows the
\* marker; when only whitespace follows the marker, \s+ gives back its last
\* character to (.+)
BulletGroup(line) ==
    LET after == Drop(line, SpaceRun(line) + 1)
    IN  IF SpaceRun(after) = Len(after)
        THEN <<after[Len(after)]>>
        ELSE Drop(after, SpaceRun(after))

\* the loop of extract_list_items in which a blank line ends the item
RECURSIVE ItemsFrom_blank_closes(_, _, _, _)
ItemsFrom_blank_closes(lines, line_num, items, current_item) ==
    IF line_num > Len(lines)
    THEN items \o current_item
    ELSE LET line == lines[line_num]
         IN  IF BulletMatches(line)
             THEN ItemsFrom_blank_closes(lines, line_num + 1, items \o current_item,
                      << [raw_text |-> <<BulletGroup(line)>>, line_number |-> line_num] >>)
             ELSE IF /\ current_item # <<>>
                     /\ Strip(line) # <<>>
                     /\ (StartsWith(line, <<" ", " ">>) \/ StartsWith(line, <<TAB>>))
                  THEN ItemsFrom_blank_closes(lines, line_num + 1, items,
                           << [raw_text |-> Append(current_item[1].raw_text, Strip(line)),
                               line_number |-> current_item[1].line_number] >>)
                  ELSE IF Strip(line) = <<>>
                       THEN ItemsFrom_blank_closes(lines, line_num + 1, items \o current_item, <<>>)
                       ELSE ItemsFrom_blank_closes(lines, line_num + 1, items, current_item)

\* the loop of extract_list_items that forgets the item open at the end
RECURSIVE ItemsFrom_drops_last(_, _, _, _)
ItemsFrom_drops_last(lines, line_num, items, current_item) ==
    IF line_num > Len(lines)
    THEN items
    ELSE LET line == lines[line_num]
         IN  IF BulletMatches(line)
             THEN ItemsFrom_drops_last(lines, line_num + 1, items \o current_item,
                      << [raw_text |-> <<BulletGroup(line)>>, line_number |-> line_num] >>)
             ELSE ItemsFrom_drops_last(lines, line_num + 1, items, current_item)

\* the loop of extract_list_items over enumerate(lines, 1), from line
\* line_num; current_item is <<>> for None and <<item>> otherwise.  The
\* "context" entry of an item, which nothing reads, is left out.
RECURSIVE ItemsFrom(_, _, _, _)
ItemsFrom(lines, line_num, items, current_item) ==
    IF line_num > Len(lines)
    THEN items \o current_item
    ELSE LET line == lines[line_num]
         IN  IF BulletMatches(line)
             THEN ItemsFrom(lines, line_num + 1, items \o current_item,
                      << [raw_text |-> <<BulletGroup(line)>>, line_number |-> line_num] >>)
             ELSE IF /\ current_item # <<>>
                     /\ Strip(line) # <<>>
                     /\ (StartsWith(line, <<" ", " ">>) \/ StartsWith(line, <<TAB>>))
                  THEN ItemsFrom(lines, line_num + 1, items,
                           << [raw_text |-> Append(current_item[1].raw_text, Strip(line)),
                               line_number |-> current_item[1].line_number] >>)
                  ELSE ItemsFrom(lines, line_num + 1, items, current_item)

extract_list_items(c) == ItemsFrom(SplitLines(c), 1, <<>>, <<>>)

\* process_item: <<>> for None and <<item>> otherwise
process_item_keeps_untitled(raw_item, all_headings, frontmatter_tags, topic) ==
    LET full_text == JoinWith(raw_item.raw_text, <<" ">>)
        content_parts == parse_item_content(full_text)
        item_position == raw_item.line_number
    IN  << [title |-> Strip(content_parts.title),
            link |-> content_parts.link,
            description |-> Strip(content_parts.description),
            tags |-> inherit_tags(content_parts.tags,
                                  get_ancestor_tags(all_headings, item_position),
                                  frontmatter_tags),
            sections |-> build_section_names(all_headings, item_position),
            topic |-> topic,
            line_number |-> item_position] >>

\* the body of process_item once the item text is parsed: <<>> for None and
\* <<item>> otherwise.  source_file, the path handed through unchanged, is
\* left out.
ProcessedItem(content_parts, item_position, all_headings, frontmatter_tags, topic) ==
    IF Strip(content_parts.title) = <<>> THEN <<>>
    ELSE << [title |-> Strip(content_parts.title),
             link |-> content_parts.link,
             description |-> Strip(content_parts.description),
             tags |-> inherit_tags(content_parts.tags,
                                   get_ancestor_tags(all_headings, item_position),
                                   frontmatter_tags),
             sections |-> build_section_names(all_headings, item_position),
             topic |-> topic,
             line_number |-> item_position] >>

process_item(raw_item, all_headings, frontmatter_tags, topic) ==
    ProcessedItem(parse_item_content(JoinWith(raw_item.raw_text, <<" ">>)),
                  raw_item.line_number, all_headings, frontmatter_tags, topic)

\* the loop of parse_markdown_content over raw_items
RECURSIVE ProcessItems(_, _, _, _)
ProcessItems(raw_items, all_headings, frontmatter_tags, topic) ==
    IF raw_items = <<>> THEN <<>>
    ELSE process_item(Head(raw_items), all_headings, frontmatter_tags, topic)
             \o ProcessItems(Tail(raw_items), all_headings, frontmatter_tags, topic)

TagsKey == <<"t","a","g","s">>

\* frontmatter.get("tags", []) of a dict, as the list the loops of
\* inherit_tags run over: the elements of a list, the characters of a str
FrontmatterTags(frontmatter) ==
    IF TagsKey \notin DOMAIN frontmatter.value THEN <<>>
    ELSE LET v == frontmatter.value[TagsKey]
         IN  IF v.kind = "seq" THEN v.value
             ELSE [i \in DOMAIN v.value |-> <<v.value[i]>>]

\* the first heading of level 1, as <<heading>>, or <<>>
RECURSIVE FirstTopic(_)
FirstTopic(hs) ==
    IF hs = <<>> THEN <<>>
    ELSE IF Head(hs).level = 1 THEN <<Head(hs)>> ELSE FirstTopic(Tail(hs))

\* parse_markdown_content from the topic on: the AwesomeList, or ValueError
\* when there is no topic; first is <<>> or holds the first level-1 heading
ContentWithTopic(frontmatter, content_without_frontmatter, all_headings, first) ==
    IF first = <<>> \/ first[1].clean_text = <<>>
    THEN [error |-> "ValueError", topic |-> <<>>, items |-> <<>>]
    ELSE [error |-> "none",
          topic |-> first[1].clean_text,
          items |-> ProcessItems(extract_list_items(content_without_frontmatter),
                                 all_headings, FrontmatterTags(frontmatter),
                                 first[1].clean_text)]

\* parse_markdown_content once the headings are extracted
ContentWithHeadings(frontmatter, content_without_frontmatter, all_headings) ==
    ContentWithTopic(frontmatter, content_without_frontmatter, all_headings,
                     FirstTopic(all_headings))

\* parse_markdown_content once parse_frontmatter has returned: AttributeError
\* when the frontmatter has no get
ContentAfterFrontmatter(front_and_rest) ==
    IF front_and_rest[1].kind # "map"
    THEN [error |-> "AttributeError", topic |-> <<>>, items |-> <<>>]
    ELSE ContentWithHeadings(front_and_rest[1], front_and_rest[2],
                             extract_headings(front_and_rest[2]))

\* parse_markdown_content: the AwesomeList, or the exception raised
\* (ValueError: no topic; AttributeError: the frontmatter has no get)
parse_markdown_content(c) == ContentAfterFrontmatter(parse_frontmatter(c))

(***************************************************************************)
(* Specification SpecNormalize: normalize_tag applied to every raw tag     *)
(* over TagAlphabet of at most MaxTagLen characters, then applied again    *)
(* to its own result.                                                      *)
(***************************************************************************)
MaxTagLen == 4

TagAlphabet == {"a", "B", "#", " ", "-", "_", "!"}

IdleNormalize == tag = <<>> /\ once = <<>> /\ twice = <<>>
IdleInherit == inline = <<>> /\ section = <<>> /\ front = <<>> /\ inherited = <<>>
IdleHeadings ==
    content = <<>> /\ position = 0 /\ headings = <<>> /\ ancestor_tags = <<>> /\ sections = <<>>
IdleFrontmatter == metadata = EmptyDict /\ body = <<>>
NoItem == [title |-> <<>>, description |-> <<>>, link |-> <<>>, tags |-> <<>>]
IdleItem == item_text = <<>> /\ item_urls = <<>> /\ item_parsed = NoItem
NoDocument == [error |-> "none", topic |-> <<>>, items |-> <<>>]
IdleDocument == document = NoDocument
NotLoaded ==
    [success |-> FALSE, errors |-> <<>>, cache_data |-> <<>>, all_items |-> <<>>,
     cache_metadata |-> <<>>]
IdleBatch ==
    /\ files = <<>> /\ paths = <<>> /\ exclude_tags = <<>>
    /\ awesome_lists = <<>> /\ errors = <<>> /\ cache_text = <<>> /\ loader = NotLoaded
IdleFilter ==
    /\ _all_items = <<>> /\ _exclude_tags = {} /\ _items = <<>>
    /\ _selected_tags = {} /\ _selected_topics = {} /\ _filter_mode = "or"
    /\ _tag_counts = <<>> /\ _topic_counts = <<>>
    /\ _filtered_items = <<>> /\ _search_filtered_items = <<>>
IdleWalk == walk_line = 0 /\ heading_stack = <<>> /\ walk_items = <<>>
IdleList == item_blocks = <<>>
IdleDialog == dialog = [open |-> "none"]
IdleLog == operation_log = <<>> /\ log_added = <<>>
IdleLoad == cache_file = <<>> /\ clock = 0 /\ data_loader = <<>> /\ load_result = <<>>
IdleMore == IdleList /\ IdleDialog /\ IdleLog /\ IdleLoad
IdleRest == IdleBatch /\ IdleFilter /\ IdleWalk /\ IdleMore

InitNormalize ==
    /\ pc = "start"
    /\ tag \in SeqsUpTo(TagAlphabet, MaxTagLen)
    /\ once = <<>>
    /\ twice = <<>>
    /\ IdleInherit
    /\ IdleHeadings
    /\ IdleFrontmatter
    /\ IdleItem
    /\ IdleDocument
    /\ IdleRest

NormalizeOnce ==
    /\ pc = "start"
    /\ once' = normalize_tag(tag)
    /\ pc' = "once"
    /\ UNCHANGED <<tag, twice, inheritVars, headingVars, frontVars, itemVars, document, restVars>>

NormalizeTwice ==
    /\ pc = "once"
    /\ twice' = normalize_tag(once)
    /\ pc' = "twice"
    /\ UNCHANGED <<tag, once, inheritVars, headingVars, frontVars, itemVars, document, restVars>>

NextNormalize == NormalizeOnce \/ NormalizeTwice

SpecNormalize == InitNormalize /\ [][NextNormalize]_vars

\* C3: normalize_tag is total and idempotent: it returns a string of tag
\* characters for every raw tag, and normalizing its result again returns
\* the same string.
C3_NormalizeIdempotent ==
    /\ pc \in {"once", "twice"} => once \in Seq({c \in TagAlphabet \cup {"b"} : IsTagChar(c)})
    /\ pc = "twice" => twice = once

\* a raw tag that normalization changes, normalized twice
C3_Witness == pc = "twice" /\ once # <<>> /\ once # tag /\ Len(tag) = MaxTagLen

(***************************************************************************)
(* Specification SpecInherit: inherit_tags applied to three lists of raw   *)
(* tags drawn from TagPool with at most MaxTags tags in all, and to the    *)
(* example of the documentation.                                           *)
(***************************************************************************)
MaxTags == 4

TagPool ==
    { <<"B">>, <<"a">>, <<"#","A"," ">>, <<"d">>, <<"!">>,
      <<" ","#","A","w","e","s","o","m","e">> }

\* resolve([B, a], [a, C], [d])
ExampleTags == << <<<<"B">>, <<"a">>>>, <<<<"a">>, <<"C">>>>, <<<<"d">>>> >>

\* every split of a list of at most MaxTags raw tags into the three sources
TagInputs ==
    { <<Slice(all, 1, i), Slice(all, i + 1, j), Slice(all, j + 1, Len(all))>> :
        <<all, i, j>> \in {x \in SeqsUpTo(TagPool, MaxTags) \X (0..MaxTags) \X (0..MaxTags) :
                              x[2] <= x[3] /\ x[3] <= Len(x[1])} }
    \cup {ExampleTags}

InitInherit ==
    /\ pc = "start"
    /\ \E t \in TagInputs : inline = t[1] /\ section = t[2] /\ front = t[3]
    /\ inherited = <<>>
    /\ IdleNormalize
    /\ IdleHeadings
    /\ IdleFrontmatter
    /\ IdleItem
    /\ IdleDocument
    /\ IdleRest

InheritTags ==
    /\ pc = "start"
    /\ inherited' = inherit_tags(inline, section, front)
    /\ pc' = "done"
    /\ UNCHANGED <<inline, section, front, normVars, headingVars, frontVars, itemVars, document, restVars>>

NextInherit == InheritTags

SpecInherit == InitInherit /\ [][NextInherit]_vars

\* the raw tags in priority order, each normalized
NormalizedInputs ==
    LET all == inline \o section \o front
    IN  [i \in DOMAIN all |-> normalize_tag(all[i])]

\* the elements of list at the indices of K that are not below i, in order
RECURSIVE PickFrom(_, _, _)
PickFrom(list, i, K) ==
    IF i > Len(list) THEN <<>>
    ELSE (IF i \in K THEN <<list[i]>> ELSE <<>>) \o PickFrom(list, i + 1, K)

\* the elements of list at the indices of K, in order
Pick(list, K) == PickFrom(list, 1, K)

\* the indices at which a non-empty element of list occurs for the first time
FirstNonEmpty(list) ==
    {i \in DOMAIN list : list[i] # <<>> /\ \A j \in 1..(i - 1) : list[j] # list[i]}

\* C1 as stated: the result is the normalized tags in the order inline,
\* ancestor, frontmatter, each non-empty one exactly once at its first
\* occurrence.
C1_AllFirstOccurrences ==
    pc = "done" => inherited = Pick(NormalizedInputs, FirstNonEmpty(NormalizedInputs))

\* C1 amended: the result is the normalized tags other than "awesome" in the
\* order inline, ancestor, frontmatter, each non-empty one exactly once at its
\* first occurrence, so it has no duplicates.
C1_FirstOccurrencesButAwesome ==
    pc = "done" =>
        /\ inherited = Pick(NormalizedInputs,
                            {i \in FirstNonEmpty(NormalizedInputs) : NormalizedInputs[i] # awesome})
        /\ \A i, j \in DOMAIN inherited : inherited[i] = inherited[j] => i = j

\* resolve([B, a], [a, C], [d]) = [b, a, c, d]
C1_Witness ==
    /\ pc = "done"
    /\ <<inline, section, front>> = ExampleTags
    /\ inherited = << <<"b">>, <<"a">>, <<"c">>, <<"d">> >>

\* the list of the tags of list other than x
Without(list, x) == SelectSeq(list, LAMBDA t : t # x)

\* C2: "awesome" is never in the result, from whichever source and in
\* whichever raw spelling it came, and the other tags are those of the
\* combined list, in the same order.
C2_AwesomeNeverReturned ==
    pc = "done" =>
        /\ ~InList(awesome, inherited)
        /\ inherited = Without(Pick(NormalizedInputs, FirstNonEmpty(NormalizedInputs)), awesome)

\* a raw spelling of "awesome" comes from each source in turn, with other tags
C2_Witness ==
    /\ pc = "done"
    /\ inherited # <<>>
    /\ InList(awesome, NormalizedInputs)
    /\ ~InList(awesome, inline \o section \o front)

(***************************************************************************)
(* Specification SpecHeadings: extract_headings applied to every text of   *)
(* at most MaxHeadingLines lines drawn from HeadingLinePool and to the     *)
(* example of the documentation, then get_ancestor_tags and                *)
(* build_section_names applied to its result and a position, as            *)
(* process_item applies them.                                              *)
(***************************************************************************)
MaxHeadingLines == 4

Line_H1 == <<"#"," ","T"," ","#","x">>          \* "# T #x"
Line_H2a == <<"#","#"," ","A"," ","#","a">>      \* "## A #a"
Line_H2c == <<"#","#"," ","#","c">>                \* "## #c"
Line_H3 == <<"#","#","#"," ","B"," ","#","b"," ","#","A">>   \* "### B #b #A"
Line_H4 == <<"#","#","#","#"," ","D">>             \* "#### D"
Line_Item == <<"-"," ","i">>                         \* "- i"

HeadingLinePool == {Line_H1, Line_H2a, Line_H2c, Line_H3, Line_H4, Line_Item}

Tools == <<"T","o","o","l","s">>
Editors == <<"E","d","i","t","o","r","s">>
More == <<"M","o","r","e">>

\* "## Tools #a" on line 5, "### Editors #b" on line 8, "## More #c" on line
\* 12, items on lines 10 and 15
ExampleLines ==
    [n \in 1..15 |->
        CASE n = 5 -> <<"#","#"," ">> \o Tools \o <<" ","#","a">>
          [] n = 8 -> <<"#","#","#"," ">> \o Editors \o <<" ","#","b">>
          [] n = 12 -> <<"#","#"," ">> \o More \o <<" ","#","c">>
          [] n \in {10, 15} -> Line_Item
          [] OTHER -> <<>>]

ExampleContent == JoinLines(ExampleLines)

InitHeadings ==
    /\ pc = "start"
    /\ \/ \E lines \in SeqsUpTo(HeadingLinePool, MaxHeadingLines) :
            /\ content = JoinLines(lines)
            /\ position \in 1..(Len(lines) + 1)
       \/ content = ExampleContent /\ position \in {10, 15}
    /\ headings = <<>>
    /\ ancestor_tags = <<>>
    /\ sections = <<>>
    /\ IdleNormalize
    /\ IdleInherit
    /\ IdleFrontmatter
    /\ IdleItem
    /\ IdleDocument
    /\ IdleRest

ExtractHeadings ==
    /\ pc = "start"
    /\ headings' = extract_headings(content)
    /\ pc' = "extracted"
    /\ UNCHANGED <<content, position, ancestor_tags, sections, normVars, inheritVars, frontVars, itemVars, document, restVars>>

GetAncestorTags ==
    /\ pc = "extracted"
    /\ ancestor_tags' = get_ancestor_tags(headings, position)
    /\ pc' = "tagged"
    /\ UNCHANGED <<content, position, headings, sections, normVars, inheritVars, frontVars, itemVars, document, restVars>>

BuildSectionNames ==
    /\ pc = "tagged"
    /\ sections' = build_section_names(headings, position)
    /\ pc' = "done"
    /\ UNCHANGED <<content, position, headings, ancestor_tags, normVars, inheritVars, frontVars, itemVars, document, restVars>>

NextHeadings == ExtractHeadings \/ GetAncestorTags \/ BuildSectionNames

SpecHeadings == InitHeadings /\ [][NextHeadings]_vars

\* the indices of the headings of the active ancestor chain of the position:
\* the headings on a line before it, of level 2 or deeper, that no later
\* heading before the position, of the same or a shallower level, follows
Chain ==
    {i \in DOMAIN headings :
        /\ headings[i].line_number < position
        /\ headings[i].level >= 2
        /\ \A j \in DOMAIN headings :
              (j > i /\ headings[j].line_number < position)
                  => headings[j].level > headings[i].level}

\* the raw tags of the headings of the chain, in document order
RECURSIVE ChainTagsFrom(_)
ChainTagsFrom(i) ==
    IF i > Len(headings) THEN <<>>
    ELSE (IF i \in Chain THEN headings[i].tags ELSE <<>>) \o ChainTagsFrom(i + 1)

ChainNormalizedTags ==
    LET raw == ChainTagsFrom(1) IN [k \in DOMAIN raw |-> normalize_tag(raw[k])]

ChainCleanTexts == [i \in DOMAIN headings |-> headings[i].clean_text]

C5_OneSectionPerChainHeading ==
    pc = "done" => Len(sections) = Cardinality(Chain)

\* C5 amended: the section path has one entry, its clean_text, per heading of
\* the chain whose clean_text is not empty, in ascending level order; so it is
\* never longer than the chain and as long as the chain when no heading of the
\* chain consists of tags only.
C5_OneSectionPerNamedChainHeading ==
    pc = "done" =>
        LET named == {i \in Chain : headings[i].clean_text # <<>>}
        IN  /\ Len(sections) = Cardinality(named)
            /\ \A n \in DOMAIN sections :
                  \E i \in named :
                      /\ sections[n] = headings[i].clean_text
                      /\ Cardinality({j \in named : headings[j].level < headings[i].level}) = n - 1
            /\ Len(sections) <= Cardinality(Chain)

\* a position under a named level-2 heading and a named level-3 heading
C5_Witness ==
    /\ pc = "done"
    /\ Len(sections) = 2
    /\ Cardinality(Chain) = 2
    /\ ancestor_tags # <<>>

(***************************************************************************)
(* Specification SpecLines: extract_headings applied to every text of at   *)
(* most MaxTextLines lines, each made of optional leading whitespace, a    *)
(* run of hashes, a gap and a text.                                        *)
(***************************************************************************)
MaxTextLines == 2

LineLeads == {<<>>, <<" ">>}
LineHashes == {<<>>, <<"#">>, <<"#","#","#","#","#","#">>, <<"#","#","#","#","#","#","#">>}
LineGaps == {<<>>, <<" ">>, <<TAB>>}
LineTexts == {<<>>, <<"a">>}

LinePool == {lead \o hashes \o gap \o text :
                lead \in LineLeads, hashes \in LineHashes, gap \in LineGaps, text \in LineTexts}

InitLines ==
    /\ pc = "start"
    /\ \E lines \in SeqsUpTo(LinePool, MaxTextLines) : content = JoinLines(lines)
    /\ position = 0
    /\ headings = <<>>
    /\ ancestor_tags = <<>>
    /\ sections = <<>>
    /\ IdleNormalize
    /\ IdleInherit
    /\ IdleFrontmatter
    /\ IdleItem
    /\ IdleDocument
    /\ IdleRest

NextLines == ExtractHeadings

SpecLines == InitLines /\ [][NextLines]_vars

\* the number of '#' a text starts with
LeadingHashes(text) == Max({k \in 0..Len(text) : \A i \in 1..k : text[i] = "#"})

\* a text that starts with 1 to 6 '#', then whitespace, then text that is
\* not only whitespace
HeadingShaped(text) ==
    /\ LeadingHashes(text) \in 1..6
    /\ Len(text) > LeadingHashes(text)
    /\ IsSpace(text[LeadingHashes(text) + 1])
    /\ \E i \in (LeadingHashes(text) + 2)..Len(text) : ~IsSpace(text[i])

\* the heading lines of the content, in line order, as <<line number, level>>
HeadingLinesWhere(Shaped(_), Level(_)) ==
    LET lines == SplitLines(content)
        found == SelectSeq([k \in DOMAIN lines |-> k], LAMBDA k : Shaped(lines[k]))
    IN  [n \in DOMAIN found |-> <<found[n], Level(lines[found[n]])>>]

RecordedHeadings == [n \in DOMAIN headings |-> <<headings[n].line_number, headings[n].level>>]

\* C22 as stated: a heading is recorded for a line exactly when the line
\* itself starts with 1 to 6 '#', whitespace and text; a line that begins
\* with whitespace is not a heading.
C22_HeadingIffLineStartsWithHashes ==
    pc = "extracted" => RecordedHeadings = HeadingLinesWhere(HeadingShaped, LeadingHashes)

StrippedShaped(line) == HeadingShaped(Strip(line))
StrippedLevel(line) == LeadingHashes(Strip(line))

\* C22: extract_headings records a heading for a body line exactly when the
\* line, without its leading and trailing whitespace, starts with 1 to 6 '#'
\* followed by whitespace and text; 7 or more '#' make no heading; the level
\* is the number of leading '#' and the position the 1-based line number.
C22_HeadingIffStrippedLineStartsWithHashes ==
    pc = "extracted" => RecordedHeadings = HeadingLinesWhere(StrippedShaped, StrippedLevel)

\* an indented level-6 heading on line 2 after a line of seven hashes
C22_Witness ==
    /\ pc = "extracted"
    /\ Len(SplitLines(content)) = 2
    /\ LeadingHashes(SplitLines(content)[1]) = 7
    /\ StartsWith(SplitLines(content)[2], <<" ">>)
    /\ RecordedHeadings = << <<2, 6>> >>

(***************************************************************************)
(* Specification SpecFrontmatter: parse_frontmatter applied to every text  *)
(* of at most MaxFrontLines lines drawn from FrontLinePool.                *)
(***************************************************************************)
MaxFrontLines == 5

Line_Dashes == Dashes
Line_DashesSpace == <<"-","-","-"," ">>           \* "--- "
Line_Tags == <<"t","a","g","s",":"," ","[","x","]">>       \* "tags: [x]"
Line_Unclosed == <<"t",":"," ","[">>                    \* "t: ["
Line_SeqEntry == <<"-"," ","x">>                         \* "- x"
Line_Topic == <<"#"," ","T">>                            \* "# T"

FrontLinePool ==
    {Line_Dashes, Line_DashesSpace, Line_Tags, Line_Unclosed, Line_SeqEntry, Line_Topic, <<>>}

InitFrontmatter ==
    /\ pc = "start"
    /\ \E lines \in SeqsUpTo(FrontLinePool, MaxFrontLines) : content = JoinLines(lines)
    /\ metadata = EmptyDict
    /\ body = <<>>
    /\ position = 0 /\ headings = <<>> /\ ancestor_tags = <<>> /\ sections = <<>>
    /\ IdleNormalize
    /\ IdleInherit
    /\ IdleItem
    /\ IdleDocument
    /\ IdleRest

ParseFrontmatter ==
    /\ pc = "start"
    /\ metadata' = parse_frontmatter(content)[1]
    /\ body' = parse_frontmatter(content)[2]
    /\ pc' = "parsed"
    /\ UNCHANGED <<content, headingOut, normVars, inheritVars, itemVars, document, restVars>>

NextFrontmatter == ParseFrontmatter

SpecFrontmatter == InitFrontmatter /\ [][NextFrontmatter]_vars

\* a line that consists of "---" and optional trailing whitespace
IsDelimiterLine(line) == StartsWith(line, Dashes) /\ \A i \in 4..Len(line) : IsSpace(line[i])

\* the lines of the content that can close the frontmatter block: delimiter
\* lines after at least one line of block, followed by a newline
ClosingLines ==
    LET lines == SplitLines(content)
    IN  IF IsDelimiterLine(lines[1])
        THEN {k \in 3..(Len(lines) - 1) : IsDelimiterLine(lines[k])}
        ELSE {}

\* the text between the opening line and the first closing line
LeadingBlock ==
    LET lines == SplitLines(content)
    IN  JoinLines(Slice(lines, 2, Min(ClosingLines) - 1))

\* C6: when the closing delimiter line is absent, or the leading block does
\* not decode as YAML, parse_frontmatter returns the empty map and the
\* original content, unmodified.
C6_FailureKeepsContent ==
    pc = "parsed" =>
        ((ClosingLines = {} \/ yaml_safe_load(LeadingBlock).error)
            => metadata = EmptyDict /\ body = content)

\* a delimited block that does not decode, followed by more text
C6_Witness ==
    /\ pc = "parsed"
    /\ ClosingLines # {}
    /\ yaml_safe_load(LeadingBlock).error
    /\ Len(SplitLines(content)) > Min(ClosingLines) + 1
    /\ body = content

\* C21: for every content parse_frontmatter returns a map as metadata, never
\* a scalar or a sequence, and parse_markdown_content does not fail because
\* of the shape the frontmatter decodes to.
C21_MetadataIsMap ==
    pc = "parsed" =>
        /\ metadata.kind = "map"
        /\ parse_markdown_content(content).error # "AttributeError"

(***************************************************************************)
(* Specification SpecItem: extract_urls and parse_item_content applied to  *)
(* every text made of at most MaxTokens pieces of TokenPool and to the     *)
(* example of the documentation.                                           *)
(***************************************************************************)
MaxTokens == 4

Tok_Word == <<"T"," ">>                                  \* "T "
Tok_Angle == <<"<","h","t","t","p",":","/","/","a",">">>  \* "<http://a>"
Tok_Bare == <<"h","t","t","p",":","/","/","b">>          \* "http://b"
Tok_Link == <<"[","L","]","(","h","t","t","p",":","/","/","c",")">>   \* "[L](http://c)"
Tok_Path == <<"[","L","]","(","c",")">>                  \* "[L](c)"
Tok_Tag == <<"#","t">>                                   \* "#t"

TokenPool == {Tok_Word, Tok_Angle, Tok_Bare, Tok_Link, Tok_Path, Tok_Tag, <<" ">>}

RECURSIVE Concat(_)
Concat(pieces) == IF pieces = <<>> THEN <<>> ELSE Head(pieces) \o Concat(Tail(pieces))

\* "Tool <https://a.com> see also https://b.com"
ExampleItemText ==
    <<"T","o","o","l"," ","<","h","t","t","p","s",":","/","/","a",".","c","o","m",">"," ","s","e","e"," ","a","l","s","o"," ","h","t","t","p","s",":","/","/","b",".","c","o","m">>

InitItem ==
    /\ pc = "start"
    /\ \/ \E pieces \in SeqsUpTo(TokenPool, MaxTokens) : item_text = Concat(pieces)
       \/ item_text = ExampleItemText
    /\ item_urls = <<>>
    /\ item_parsed = NoItem
    /\ IdleNormalize
    /\ IdleInherit
    /\ IdleHeadings
    /\ IdleFrontmatter
    /\ IdleDocument
    /\ IdleRest

ExtractUrls ==
    /\ pc = "start"
    /\ item_urls' = extract_urls(item_text)
    /\ pc' = "urls"
    /\ UNCHANGED <<item_text, item_parsed, normVars, inheritVars, headingVars, frontVars, document, restVars>>

ParseItemContent ==
    /\ pc = "urls"
    /\ item_parsed' = parse_item_content(item_text)
    /\ pc' = "parsed"
    /\ UNCHANGED <<item_text, item_urls, normVars, inheritVars, headingVars, frontVars, document, restVars>>

NextItem == ExtractUrls \/ ParseItemContent

SpecItem == InitItem /\ [][NextItem]_vars

\* "http://" or "https://" occurs in item_text at index i; the index after it
SchemeAt(i) ==
    \/ OccursAt(item_text, <<"h","t","t","p",":","/","/">>, i)
    \/ OccursAt(item_text, <<"h","t","t","p","s",":","/","/">>, i)

AfterScheme(i) ==
    IF OccursAt(item_text, <<"h","t","t","p","s",":","/","/">>, i) THEN i + 8 ELSE i + 7

\* the pairs <<i, k>> such that item_text[i..k] is "<", an http(s) URL with no
\* whitespace and no ">" in it, ">"
AngleUrls ==
    {ik \in (DOMAIN item_text) \X (DOMAIN item_text) :
        /\ item_text[ik[1]] = "<"
        /\ SchemeAt(ik[1] + 1)
        /\ ik[2] > AfterScheme(ik[1] + 1)
        /\ item_text[ik[2]] = ">"
        /\ \A j \in (ik[1] + 1)..(ik[2] - 1) : item_text[j] \notin {" ", TAB, NL, ">"}}

FirstAngleUrl ==
    LET first == CHOOSE ik \in AngleUrls : \A other \in AngleUrls : ik[1] <= other[1]
    IN  Slice(item_text, first[1] + 1, first[2] - 1)

\* the last index of the token that starts at index i: up to the next
\* whitespace, "<" or ">"
TokenEnd(i) ==
    LET stops == {j \in i..Len(item_text) : item_text[j] \in {" ", TAB, NL, "<", ">"}}
    IN  IF stops = {} THEN Len(item_text) ELSE Min(stops) - 1

\* the indices at which a bare URL starts: an http(s) token that "<" does not
\* precede and ">" does not follow
BareUrls ==
    {i \in DOMAIN item_text :
        /\ SchemeAt(i)
        /\ (i > 1 => item_text[i - 1] # "<")
        /\ TokenEnd(i) >= AfterScheme(i)
        /\ (TokenEnd(i) < Len(item_text) => item_text[TokenEnd(i) + 1] # ">")}

FirstBareUrl == Slice(item_text, Min(BareUrls), TokenEnd(Min(BareUrls)))

\* the triples <<i, j, k>> such that item_text[i..k] is "[text](url)" with "]("
\* at j, text without "]" and url without ")", neither empty
MarkdownLinks ==
    {ijk \in (DOMAIN item_text) \X (DOMAIN item_text) \X (DOMAIN item_text) :
        /\ item_text[ijk[1]] = "["
        /\ ijk[2] > ijk[1] + 1
        /\ OccursAt(item_text, <<"]", "(">>, ijk[2])
        /\ ijk[3] > ijk[2] + 2
        /\ item_text[ijk[3]] = ")"
        /\ \A n \in (ijk[1] + 1)..(ijk[2] - 1) : item_text[n] # "]"
        /\ \A n \in (ijk[2] + 2)..(ijk[3] - 1) : item_text[n] # ")"}

FirstMarkdownUrl ==
    LET first == CHOOSE ijk \in MarkdownLinks : \A other \in MarkdownLinks : ijk[1] <= other[1]
    IN  Slice(item_text, first[2] + 2, first[3] - 1)

\* C7: link is one URL, the first found in the order angle-bracket form, bare
\* http(s) token, markdown link: the first angle-bracket URL whenever there is
\* one, even after a bare URL; link is empty only when the text has no URL of
\* any notation.  "Tool <https://a.com> see also https://b.com" gives
\* https://a.com.
C7_FirstUrlByPriority ==
    pc = "parsed" =>
        /\ AngleUrls # {} => item_parsed.link = FirstAngleUrl
        /\ (AngleUrls = {} /\ BareUrls # {}) => item_parsed.link = FirstBareUrl
        /\ (AngleUrls = {} /\ BareUrls = {} /\ MarkdownLinks # {})
              => item_parsed.link = FirstMarkdownUrl
        /\ item_parsed.link = <<>> <=> (AngleUrls = {} /\ BareUrls = {} /\ MarkdownLinks = {})
        /\ item_text = ExampleItemText
              => item_parsed.link = <<"h","t","t","p","s",":","/","/","a",".","c","o","m">>

\* an angle-bracket URL after a bare URL
C7_Witness ==
    /\ pc = "parsed"
    /\ AngleUrls # {}
    /\ BareUrls # {}
    /\ \E ik \in AngleUrls : Min(BareUrls) < ik[1]
    /\ item_parsed.link = FirstAngleUrl

\* every URL of the text is the URL of a markdown link
OnlyMarkdownUrls ==
    /\ MarkdownLinks # {}
    /\ AngleUrls = {}
    /\ \A i \in DOMAIN item_text :
          SchemeAt(i) => \E ijk \in MarkdownLinks : i = ijk[2] + 2

\* C8: when the only URL of the text is written [text](url), extract_urls
\* yields url and link is exactly the characters between the parentheses.
C8_MarkdownLinkExact ==
    (pc = "parsed" /\ OnlyMarkdownUrls) =>
        /\ InList(FirstMarkdownUrl, item_urls)
        /\ item_parsed.link = FirstMarkdownUrl

(***************************************************************************)
(* Specification SpecDocument: parse_markdown_content applied to every     *)
(* text of at most MaxDocLines lines drawn from DocLinePool.               *)
(***************************************************************************)
MaxDocLines == 4

Doc_Topic == <<"#"," ","T">>                       \* "# T"
Doc_Section == <<"#","#"," ","S"," ","#","s">>   \* "## S #s"
Doc_Bullet == <<"-"," ","A">>                      \* "- A"
Doc_UrlOnly == <<"-"," ","<","h","t","t","p",":","/","/","x",">"," ","#","q">>  \* "- <http://x> #q"
Doc_More == <<" "," ","d">>                        \* "  d"
Doc_Text == <<"t","e","x","t">>                        \* "text"

DocLinePool == {Doc_Topic, Doc_Section, Doc_Bullet, Doc_UrlOnly, Doc_More, Doc_Text, <<>>}

InitDocument ==
    /\ pc = "start"
    /\ \E lines \in SeqsUpTo(DocLinePool, MaxDocLines) : content = JoinLines(lines)
    /\ document = NoDocument
    /\ position = 0 /\ headings = <<>> /\ ancestor_tags = <<>> /\ sections = <<>>
    /\ IdleNormalize
    /\ IdleInherit
    /\ IdleFrontmatter
    /\ IdleItem
    /\ IdleRest

ParseMarkdownContent ==
    /\ pc = "start"
    /\ document' = parse_markdown_content(content)
    /\ pc' = "done"
    /\ UNCHANGED <<normVars, inheritVars, headingVars, frontVars, itemVars, restVars>>

NextDocument == ParseMarkdownContent

SpecDocument == InitDocument /\ [][NextDocument]_vars

\* the bullet blocks of the body of the content
Blocks == extract_list_items(parse_frontmatter(content)[2])

\* the block that starts on line n
BlockAt(n) == CHOOSE b \in Range(Blocks) : b.line_number = n

\* the text of the lines, joined with spaces, without its URLs and #tags
Cleaned(lines) ==
    LET text == JoinWith(lines, <<" ">>)
    IN  Strip(RemoveTags(RemoveUrls(text, extract_urls(text))))

\* C9: the title of an item whose bullet has continuation lines is taken from
\* the first line of the bullet only, and its description is the text of the
\* remaining lines joined with spaces.
C9_TitleFromFirstLine ==
    pc = "done" =>
        \A n \in DOMAIN document.items :
            LET item == document.items[n]
                lines == BlockAt(item.line_number).raw_text
            IN  Len(lines) > 1 =>
                    /\ item.title = Cleaned(<<lines[1]>>)
                    /\ item.description = Cleaned(Tail(lines))

\* C10: every item has a non-empty, trimmed title; the items are, in order,
\* the bullet blocks whose text is not empty once URLs and #tags are stripped:
\* the other blocks give no item and no error.
C10_NoUntitledItem ==
    pc = "done" =>
        /\ \A n \in DOMAIN document.items :
              /\ document.items[n].title # <<>>
              /\ Strip(document.items[n].title) = document.items[n].title
        /\ document.error = "none" =>
              [n \in DOMAIN document.items |-> document.items[n].line_number]
                  = Pick([i \in DOMAIN Blocks |-> Blocks[i].line_number],
                         {i \in DOMAIN Blocks : Cleaned(Blocks[i].raw_text) # <<>>})
        /\ FirstTopic(extract_headings(content)) # <<>> => document.error = "none"

\* a bullet that is only a URL and a tag, dropped, before a bullet that is
\* emitted
C10_Witness ==
    /\ pc = "done"
    /\ document.error = "none"
    /\ \E i, j \in DOMAIN Blocks :
          /\ i < j
          /\ Cleaned(Blocks[i].raw_text) = <<>>
          /\ Cleaned(Blocks[j].raw_text) # <<>>
    /\ Len(document.items) = 1

(***************************************************************************)
(* Specification SpecFile: parse_markdown_content applied to the text of   *)
(* a file: one of FilePrefixes (nothing, or a frontmatter block) followed  *)
(* by at most MaxFileLines lines drawn from FileLinePool.                  *)
(***************************************************************************)
MaxFileLines == 4

File_Topic == <<"#"," ","T">>                  \* "# T"
File_Other == <<"#"," ","U"," ","#","u">>      \* "# U #u"
File_TagOnly == <<"#"," ","#","x">>            \* "# #x"
File_Section == <<"#","#"," ","S">>            \* "## S"
File_Bullet == <<"-"," ","A">>                 \* "- A"

FileLinePool == {File_Topic, File_Other, File_TagOnly, File_Section, File_Bullet, <<>>}

Front_Tags == <<"t","a","g","s",":"," ","[","y","]">>   \* "tags: [y]"
Front_Name == <<"n",":"," ","v">>                        \* "n: v"

\* no frontmatter; a one-line block; a block followed by a blank line; a
\* two-line block
FilePrefixes ==
    { <<>>,
      JoinLines(<<Dashes, Front_Tags, Dashes, <<>>>>),
      JoinLines(<<Dashes, Front_Tags, Dashes, <<>>, <<>>>>),
      JoinLines(<<Dashes, Front_Name, Front_Tags, Dashes, <<>>>>) }

InitFile ==
    /\ pc = "start"
    /\ \E prefix \in FilePrefixes, lines \in SeqsUpTo(FileLinePool, MaxFileLines) :
          content = prefix \o JoinLines(lines)
    /\ document = NoDocument
    /\ position = 0 /\ headings = <<>> /\ ancestor_tags = <<>> /\ sections = <<>>
    /\ IdleNormalize
    /\ IdleInherit
    /\ IdleFrontmatter
    /\ IdleItem
    /\ IdleRest

ParseFileContent ==
    /\ pc = "start"
    /\ document' = parse_markdown_content(content)
    /\ pc' = "done"
    /\ UNCHANGED <<normVars, inheritVars, headingVars, frontVars, itemVars, restVars>>

NextFile == ParseFileContent

SpecFile == InitFile /\ [][NextFile]_vars

\* the body of the file: its text after the frontmatter block
FileBody == parse_frontmatter(content)[2]

\* the indexes, in the heading list of the body, of the level-1 headings
LevelOneHeadings ==
    {i \in DOMAIN extract_headings(FileBody) : extract_headings(FileBody)[i].level = 1}

\* C11: the parse fails with the missing-topic error exactly when the body has
\* no level-1 heading; when it has one, the parse succeeds and the topic is the
\* clean_text of the first level-1 heading.
C11_MissingTopicIffNoLevelOne ==
    pc = "done" =>
        /\ document.error = "ValueError" <=> LevelOneHeadings = {}
        /\ LevelOneHeadings # {} =>
              /\ document.error = "none"
              /\ document.topic = extract_headings(FileBody)[Min(LevelOneHeadings)].clean_text

\* the lines of the source file
FileLines == SplitLines(content)

\* the number of lines of the source file that precede its body
FrontLineCount == CountChar(Slice(content, 1, Len(content) - Len(FileBody)), NL)

\* the bullet blocks of the body that give an item
TitledBlocks ==
    LET blocks == extract_list_items(FileBody)
    IN  Pick(blocks, {i \in DOMAIN blocks : Cleaned(blocks[i].raw_text) # <<>>})

\* C16: the line_number of every item is the 1-based number, in the source
\* file, of the line that holds the bullet of the item, also when the file
\* starts with a frontmatter block.
C16_LineNumberInSourceFile ==
    (pc = "done" /\ document.error = "none") =>
        /\ Len(document.items) = Len(TitledBlocks)
        /\ \A n \in DOMAIN document.items :
              LET line_number == document.items[n].line_number
              IN  /\ line_number = TitledBlocks[n].line_number + FrontLineCount
                  /\ line_number \in DOMAIN FileLines
                  /\ BulletMatches(FileLines[line_number])

(***************************************************************************)
(* json_generator: parse_all_files and apply_exclude_tags_to_lists         *)
(***************************************************************************)
\* the text t occurs in the text s
Contains(s, t) == \E i \in 1..(Len(s) + 1) : OccursAt(s, t, i)

Msg_NotFound == <<"F","i","l","e"," ","n","o","t"," ","f","o","u","n","d",":"," ">>        \* "File not found: "
Msg_ErrorParsing == <<"E","r","r","o","r"," ","p","a","r","s","i","n","g"," ">>    \* "Error parsing "
Msg_Colon == <<":", " ">>
Msg_NoTopic == <<"N","o"," ","H","1"," ","h","e","a","d","i","n","g"," ","f","o","u","n","d"," ","i","n"," ">>         \* "No H1 heading found in "
Msg_CannotRead == <<"C","a","n","n","o","t"," ","r","e","a","d"," ","f","i","l","e"," ">>      \* "Cannot read file "
Msg_Denied == <<"[","E","r","r","n","o"," ","1","3","]"," ","P","e","r","m","i","s","s","i","o","n"," ","d","e","n","i","e","d">>          \* "[Errno 13] Permission denied"
Msg_ListHasNoGet == <<"'","l","i","s","t","'"," ","o","b","j","e","c","t"," ","h","a","s"," ","n","o"," ","a","t","t","r","i","b","u","t","e"," ","'","g","e","t","'">>    \* "'list' object has no attribute 'get'"
Msg_StrHasNoGet == <<"'","s","t","r","'"," ","o","b","j","e","c","t"," ","h","a","s"," ","n","o"," ","a","t","t","r","i","b","u","t","e"," ","'","g","e","t","'">>     \* "'str' object has no attribute 'get'"

\* parse_awesome_list on the file system fs: [error, message, list]; error
\* is the exception raised, or "none"
\* what parse_awesome_list makes of the result of parse_markdown_content:
\* the exception it lets through, or the list with source_file set
ParsedList(parsed, text, file_path) ==
    LET failed(kind, message) == [error |-> kind, message |-> message, list |-> <<>>]
    IN  IF parsed.error = "ValueError"
        THEN failed("ValueError", Msg_NoTopic \o file_path)
        ELSE IF parsed.error = "AttributeError"
        THEN failed("AttributeError",
                    IF parse_frontmatter(text)[1].kind = "seq"
                    THEN Msg_ListHasNoGet ELSE Msg_StrHasNoGet)
        ELSE [error |-> "none", message |-> <<>>,
              list |-> [topic |-> parsed.topic,
                        items |-> [n \in DOMAIN parsed.items |->
                                     [title |-> parsed.items[n].title,
                                      link |-> parsed.items[n].link,
                                      description |-> parsed.items[n].description,
                                      tags |-> parsed.items[n].tags,
                                      sections |-> parsed.items[n].sections,
                                      topic |-> parsed.items[n].topic,
                                      source_file |-> file_path,
                                      line_number |-> parsed.items[n].line_number]],
                        source_file |-> file_path]]

parse_awesome_list(fs, file_path) ==
    IF ~fs[file_path].exists
    THEN [error |-> "FileNotFoundError", message |-> <<>>, list |-> <<>>]
    ELSE IF ~fs[file_path].readable
    THEN [error |-> "PermissionError",
          message |-> Msg_CannotRead \o file_path \o Msg_Colon \o Msg_Denied,
          list |-> <<>>]
    ELSE ParsedList(parse_markdown_content(fs[file_path].text), fs[file_path].text, file_path)

\* parse_all_files that gives up at the first file that fails
RECURSIVE parse_all_files_stops_at_error(_, _, _, _)
parse_all_files_stops_at_error(fs, file_paths, lists, errs) ==
    IF file_paths = <<>> THEN <<lists, errs>>
    ELSE LET file_path == Head(file_paths)
             result == parse_awesome_list(fs, file_path)
         IN  IF ~fs[file_path].exists
             THEN <<lists, Append(errs, Msg_NotFound \o file_path)>>
             ELSE IF result.error # "none"
             THEN <<lists, Append(errs, Msg_ErrorParsing \o file_path \o Msg_Colon \o result.message)>>
             ELSE parse_all_files_stops_at_error(fs, Tail(file_paths), Append(lists, result.list), errs)

\* the loop of parse_all_files over file_paths, from the lists and errors
\* collected so far: <<awesome_lists, errors>>
RECURSIVE parse_all_files(_, _, _, _)

\* one round of the loop of parse_all_files, result being what
\* parse_awesome_list gave for the first of file_paths
ParseNextFile(fs, file_paths, lists, errs, result) ==
    IF ~fs[Head(file_paths)].exists
    THEN parse_all_files(fs, Tail(file_paths), lists,
                         Append(errs, Msg_NotFound \o Head(file_paths)))
    ELSE IF result.error # "none"
    THEN parse_all_files(fs, Tail(file_paths), lists,
             Append(errs, Msg_ErrorParsing \o Head(file_paths) \o Msg_Colon \o result.message))
    ELSE parse_all_files(fs, Tail(file_paths), Append(lists, result.list), errs)

parse_all_files(fs, file_paths, lists, errs) ==
    IF file_paths = <<>> THEN <<lists, errs>>
    ELSE ParseNextFile(fs, file_paths, lists, errs,
                       parse_awesome_list(fs, Head(file_paths)))

\* the items of a list that carry no tag of exclude
KeptItems(items, exclude) ==
    SelectSeq(items, LAMBDA item : Range(item.tags) \cap Range(exclude) = {})

\* apply_exclude_tags_to_lists that also drops the lists left without items
apply_exclude_tags_to_lists_drops_empty(lists, exclude) ==
    IF exclude = <<>> THEN lists
    ELSE SelectSeq([i \in DOMAIN lists |->
                       [topic |-> lists[i].topic,
                        items |-> KeptItems(lists[i].items, exclude),
                        source_file |-> lists[i].source_file]],
                   LAMBDA l : l.items # <<>>)

apply_exclude_tags_to_lists(lists, exclude) ==
    IF exclude = <<>> THEN lists
    ELSE [i \in DOMAIN lists |->
             [topic |-> lists[i].topic,
              items |-> KeptItems(lists[i].items, exclude),
              source_file |-> lists[i].source_file]]

(***************************************************************************)
(* json.dumps and json.load, on the level of the tokens of the JSON text:  *)
(* a token is [k, v] with k "punct", "str" or "num" and v the characters   *)
(* of the token (of a string literal: the escaped text between its         *)
(* quotes).  The white space that indent=2 puts between the tokens, and    *)
(* that json.load skips, is left out.                                      *)
(***************************************************************************)
\* the characters with code points 9, 10 and 32..126 (the grave accent, which
\* the module cannot write, left out), in code point order
AsciiChars ==
    << TAB, NL,
      " ","!","\"","#","$","%","&","'","(",")","*","+",",","-",".","/",
      "0","1","2","3","4","5","6","7","8","9",":",";","<","=",">","?",
      "@","A","B","C","D","E","F","G","H","I","J","K","L","M","N","O",
      "P","Q","R","S","T","U","V","W","X","Y","Z","[","\\","]","^","_",
      "a","b","c","d","e","f","g","h","i","j","k","l","m","n","o",
      "p","q","r","s","t","u","v","w","x","y","z","{","|","}","~" >>

\* the rank of the character in code point order
Ord(ch) == CHOOSE i \in DOMAIN AsciiChars : AsciiChars[i] = ch

\* a <= b for Python str: code point by code point, a prefix first
StrLeq(a, b) ==
    LET diff == {i \in 1..Min({Len(a), Len(b)}) : a[i] # b[i]}
    IN  IF diff = {} THEN Len(a) <= Len(b)
        ELSE Ord(a[Min(diff)]) < Ord(b[Min(diff)])

\* sorted(S) of a set of str
RECURSIVE sorted(_)
sorted(S) ==
    IF S = {} THEN <<>>
    ELSE LET least == CHOOSE x \in S : \A y \in S : StrLeq(x, y)
         IN  <<least>> \o sorted(S \ {least})

DigitChars == <<"0","1","2","3","4","5","6","7","8","9">>

\* the decimal text of a natural number
RECURSIVE IntToText(_)
IntToText(n) ==
    IF n < 10 THEN <<DigitChars[n + 1]>>
    ELSE IntToText(n \div 10) \o <<DigitChars[(n % 10) + 1]>>

\* the natural number of a decimal text, after the digits read so far
RECURSIVE TextToInt(_, _)
TextToInt(text, acc) ==
    IF text = <<>> THEN acc
    ELSE TextToInt(Tail(text),
                   10 * acc + (CHOOSE d \in 0..9 : DigitChars[d + 1] = Head(text)))

\* the text of a string literal: json.dumps escapes the quote, the backslash
\* and the control characters
RECURSIVE Escape(_)
Escape(text) ==
    IF text = <<>> THEN <<>>
    ELSE (CASE Head(text) = "\"" -> <<"\\", "\"">>
            [] Head(text) = "\\" -> <<"\\", "\\">>
            [] Head(text) = NL -> <<"\\", "n">>
            [] Head(text) = TAB -> <<"\\", "t">>
            [] OTHER -> <<Head(text)>>) \o Escape(Tail(text))

\* the str of a string literal
RECURSIVE Unescape(_)
Unescape(text) ==
    IF text = <<>> THEN <<>>
    ELSE IF Head(text) = "\\"
         THEN (CASE text[2] = "n" -> <<NL>>
                 [] text[2] = "t" -> <<TAB>>
                 [] OTHER -> <<text[2]>>) \o Unescape(Drop(text, 2))
         ELSE <<Head(text)>> \o Unescape(Tail(text))

Punct(ch) == [k |-> "punct", v |-> <<ch>>]
IsPunct(token, ch) == token.k = "punct" /\ token.v = <<ch>>

\* json.dumps of a str, of an int, of a list (given the tokens of its
\* elements) and of a dict (given its keys and the tokens of their values)
dumps_str(text) == << [k |-> "str", v |-> Escape(text)] >>
dumps_int(n) == << [k |-> "num", v |-> IntToText(n)] >>
dumps_list(elements) ==
    <<Punct("[")>> \o JoinWith(elements, <<Punct(",")>>) \o <<Punct("]")>>
dumps_dict(keys, values) ==
    <<Punct("{")>>
        \o JoinWith([i \in DOMAIN keys |-> dumps_str(keys[i]) \o <<Punct(":")>> \o values[i]],
                    <<Punct(",")>>)
        \o <<Punct("}")>>

\* json.load: the value that starts at token i, as [value, next]; a value is
\* [t, v] with t "str", "num", "arr" (v a sequence of values) or "obj" (v a
\* function from keys to values)
RECURSIVE loads_value(_, _), loads_elements(_, _, _), loads_members(_, _, _)
loads_value(tokens, i) ==
    IF tokens[i].k = "str"
    THEN [value |-> [t |-> "str", v |-> Unescape(tokens[i].v)], next |-> i + 1]
    ELSE IF tokens[i].k = "num"
    THEN [value |-> [t |-> "num", v |-> TextToInt(tokens[i].v, 0)], next |-> i + 1]
    ELSE IF IsPunct(tokens[i], "[")
    THEN IF IsPunct(tokens[i + 1], "]")
         THEN [value |-> [t |-> "arr", v |-> <<>>], next |-> i + 2]
         ELSE loads_elements(tokens, i + 1, <<>>)
    ELSE IF IsPunct(tokens[i + 1], "}")
         THEN [value |-> [t |-> "obj", v |-> <<>>], next |-> i + 2]
         ELSE loads_members(tokens, i + 1, <<>>)

loads_elements(tokens, i, acc) ==
    LET element == loads_value(tokens, i)
        all == Append(acc, element.value)
    IN  IF IsPunct(tokens[element.next], ",")
        THEN loads_elements(tokens, element.next + 1, all)
        ELSE [value |-> [t |-> "arr", v |-> all], next |-> element.next + 1]

loads_members(tokens, i, acc) ==
    LET key == Unescape(tokens[i].v)
        member == loads_value(tokens, i + 2)
        all == [name \in DOMAIN acc \cup {key} |->
                   IF name = key THEN member.value ELSE acc[name]]
    IN  IF IsPunct(tokens[member.next], ",")
        THEN loads_members(tokens, member.next + 1, all)
        ELSE [value |-> [t |-> "obj", v |-> all], next |-> member.next + 1]

json_loads(tokens) == loads_value(tokens, 1).value

(***************************************************************************)
(* json_generator.generate_awesome_list_json                               *)
(***************************************************************************)
Key_metadata == <<"m","e","t","a","d","a","t","a">>
Key_lists == <<"l","i","s","t","s">>
Key_topics == <<"t","o","p","i","c","s">>
Key_tags == <<"t","a","g","s">>
Key_total_items == <<"t","o","t","a","l","_","i","t","e","m","s">>
Key_total_lists == <<"t","o","t","a","l","_","l","i","s","t","s">>
Key_topic == <<"t","o","p","i","c">>
Key_items == <<"i","t","e","m","s">>
Key_source_file == <<"s","o","u","r","c","e","_","f","i","l","e">>
Key_title == <<"t","i","t","l","e">>
Key_link == <<"l","i","n","k">>
Key_description == <<"d","e","s","c","r","i","p","t","i","o","n">>
Key_sections == <<"s","e","c","t","i","o","n","s">>
Key_line_number == <<"l","i","n","e","_","n","u","m","b","e","r">>

\* sum(len(awesome_list["items"]) for awesome_list in awesome_lists)
RECURSIVE TotalItems(_)
TotalItems(lists) ==
    IF lists = <<>> THEN 0 ELSE Len(Head(lists).items) + TotalItems(Tail(lists))

\* the set all_tags: every tag of every item of the lists
AllTags(lists) ==
    UNION {UNION {Range(lists[i].items[n].tags) : n \in DOMAIN lists[i].items} : i \in DOMAIN lists}

\* the tokens of the "metadata" dict computed from the lists
MetadataTokens(lists) ==
    dumps_dict(<<Key_topics, Key_tags, Key_total_items, Key_total_lists>>,
        << dumps_list(LET all_topics == sorted({lists[i].topic : i \in DOMAIN lists})
                      IN  [i \in DOMAIN all_topics |-> dumps_str(all_topics[i])]),
           dumps_list(LET all_tags == sorted(AllTags(lists))
                      IN  [i \in DOMAIN all_tags |-> dumps_str(all_tags[i])]),
           dumps_int(TotalItems(lists)),
           dumps_int(Len(lists)) >>)

\* the tokens of one entry of "items" of the list with the given topic
ItemTokens_without_line_number(item, list_topic) ==
    dumps_dict(<<Key_title, Key_tags, Key_link, Key_description, Key_sections, Key_topic,
                 Key_source_file>>,
        << dumps_str(item.title),
           dumps_list([i \in DOMAIN item.tags |-> dumps_str(item.tags[i])]),
           dumps_str(item.link),
           dumps_str(item.description),
           dumps_list([i \in DOMAIN item.sections |-> dumps_str(item.sections[i])]),
           dumps_str(list_topic),
           dumps_str(item.source_file) >>)

ItemTokens(item, list_topic) ==
    dumps_dict(<<Key_title, Key_tags, Key_link, Key_description, Key_sections, Key_topic,
                 Key_source_file, Key_line_number>>,
        << dumps_str(item.title),
           dumps_list([i \in DOMAIN item.tags |-> dumps_str(item.tags[i])]),
           dumps_str(item.link),
           dumps_str(item.description),
           dumps_list([i \in DOMAIN item.sections |-> dumps_str(item.sections[i])]),
           dumps_str(list_topic),
           dumps_str(item.source_file),
           dumps_int(item.line_number) >>)

\* the tokens of one entry of "lists"
ListTokens(list) ==
    dumps_dict(<<Key_topic, Key_items, Key_source_file>>,
        << dumps_str(list.topic),
           dumps_list([n \in DOMAIN list.items |-> ItemTokens(list.items[n], list.topic)]),
           dumps_str(list.source_file) >>)

\* generate_awesome_list_json whose metadata is computed from the lists as
\* parsed, before the exclusion filter
generate_awesome_list_json_metadata_first(fs, awesome_list_paths, exclude) ==
    LET parsed_lists == parse_all_files(fs, awesome_list_paths, <<>>, <<>>)[1]
        lists == IF exclude # <<>>
                 THEN apply_exclude_tags_to_lists(parsed_lists, exclude)
                 ELSE parsed_lists
    IN  dumps_dict(<<Key_metadata, Key_lists>>,
            << MetadataTokens(parsed_lists),
               dumps_list([i \in DOMAIN lists |-> ListTokens(lists[i])]) >>)

\* the lists generate_awesome_list_json writes: the parsed lists, filtered
\* when exclude_tags is given
ListsToWrite(parsed_lists, exclude) ==
    IF exclude # <<>> THEN apply_exclude_tags_to_lists(parsed_lists, exclude)
    ELSE parsed_lists

\* json.dumps(json_data): the metadata of the lists, then the lists
JsonDataTokens(lists) ==
    dumps_dict(<<Key_metadata, Key_lists>>,
        << MetadataTokens(lists),
           dumps_list([i \in DOMAIN lists |-> ListTokens(lists[i])]) >>)

\* generate_awesome_list_json: the tokens of the JSON text returned.  The
\* warnings and errors it prints are left out.
generate_awesome_list_json(fs, awesome_list_paths, exclude) ==
    JsonDataTokens(ListsToWrite(parse_all_files(fs, awesome_list_paths, <<>>, <<>>)[1],
                                exclude))

(***************************************************************************)
(* DataLoader.load_cache_data, on a cache file that exists and can be      *)
(* read.  The cache files of the model are written by                      *)
(* generate_awesome_list_json: where the code expects a dict or a list and *)
(* the file holds something else, the model takes the "except Exception"   *)
(* branch.                                                                 *)
(***************************************************************************)
Msg_List == <<"L","i","s","t"," ">>                  \* "List "
Msg_Item == <<","," ","I","t","e","m"," ">>                  \* ", Item "
Msg_MissingTopic == <<":"," ","M","i","s","s","i","n","g"," ","'","t","o","p","i","c","'"," ","f","i","e","l","d">>         \* ": Missing 'topic' field"
Msg_MissingItems == <<":"," ","M","i","s","s","i","n","g"," ","'","i","t","e","m","s","'"," ","f","i","e","l","d">>         \* ": Missing 'items' field"
Msg_MissingTitle == <<":"," ","M","i","s","s","i","n","g"," ","r","e","q","u","i","r","e","d"," ","f","i","e","l","d"," ","'","t","i","t","l","e","'">>         \* ": Missing required field 'title'"
Msg_TagsNotList == <<":"," ","'","t","a","g","s","'"," ","m","u","s","t"," ","b","e"," ","a"," ","l","i","s","t">>          \* ": 'tags' must be a list"
Msg_SectionsNotList == <<":"," ","'","s","e","c","t","i","o","n","s","'"," ","m","u","s","t"," ","b","e"," ","a"," ","l","i","s","t">>      \* ": 'sections' must be a list"
Msg_NotIterable == <<":"," ","a","r","g","u","m","e","n","t"," ","o","f"," ","t","y","p","e"," ","'","i","n","t","'"," ","i","s"," ","n","o","t"," ","i","t","e","r","a","b","l","e">>          \* ": argument of type 'int' is not iterable"
Msg_CacheEmpty == <<"C","a","c","h","e"," ","f","i","l","e"," ","i","s"," ","e","m","p","t","y">>           \* "Cache file is empty"
Msg_ErrorLoading == <<"E","r","r","o","r"," ","l","o","a","d","i","n","g"," ","c","a","c","h","e">>         \* "Error loading cache"
Msg_Unknown == <<"u","n","k","n","o","w","n">>               \* "unknown"

\* the Python value of a JSON value: str, int, list, or dict as a function
RECURSIVE Plain(_)
Plain(value) ==
    IF value.t = "arr" THEN [i \in DOMAIN value.v |-> Plain(value.v[i])]
    ELSE IF value.t = "obj" THEN [name \in DOMAIN value.v |-> Plain(value.v[name])]
    ELSE value.v

\* dict.get(key, default) on JSON values
Get(dict, key, default) == IF key \in DOMAIN dict.v THEN dict.v[key] ELSE default

EmptyArr == [t |-> "arr", v |-> <<>>]
EmptyObj == [t |-> "obj", v |-> <<>>]
StrValue(text) == [t |-> "str", v |-> text]
NumValue(n) == [t |-> "num", v |-> n]

\* _validate_item that checks the required field alone
ValidateItem_title_only(item_data, context) ==
    IF Key_title \notin DOMAIN item_data.v THEN <<context \o Msg_MissingTitle>> ELSE <<>>

\* _validate_item: the error messages for item_data
ValidateItem(item_data, context) ==
    (IF Key_title \notin DOMAIN item_data.v THEN <<context \o Msg_MissingTitle>> ELSE <<>>)
    \o (IF Key_tags \in DOMAIN item_data.v /\ item_data.v[Key_tags].t # "arr"
        THEN <<context \o Msg_TagsNotList>> ELSE <<>>)
    \o (IF Key_sections \in DOMAIN item_data.v /\ item_data.v[Key_sections].t # "arr"
        THEN <<context \o Msg_SectionsNotList>> ELSE <<>>)

\* the AwesomeListItem made of item_data
LoadedItem(item_data, awesome_list_data) ==
    [title |-> Plain(Get(item_data, Key_title, StrValue(<<>>))),
     link |-> Plain(Get(item_data, Key_link, StrValue(<<>>))),
     description |-> Plain(Get(item_data, Key_description, StrValue(<<>>))),
     tags |-> Plain(Get(item_data, Key_tags, EmptyArr)),
     sections |-> Plain(Get(item_data, Key_sections, EmptyArr)),
     topic |-> Plain(Get(item_data, Key_topic, awesome_list_data.v[Key_topic])),
     source_file |-> Plain(Get(item_data, Key_source_file,
                               Get(awesome_list_data, Key_source_file, StrValue(Msg_Unknown)))),
     line_number |-> Plain(Get(item_data, Key_line_number, NumValue(0)))]

\* the loop over enumerate(awesome_list_data["items"]) of list i, from the
\* item of index j: [items, errors, raised]
RECURSIVE LoadItems(_, _, _, _, _, _)
LoadItems(items_data, j, awesome_list_data, i, validated_items, errs) ==
    IF j >= Len(items_data)
    THEN [items |-> validated_items, errors |-> errs, raised |-> FALSE]
    ELSE LET item_data == items_data[j + 1]
             context == Msg_List \o IntToText(i) \o Msg_Item \o IntToText(j)
         IN  IF item_data.t # "obj"
             THEN [items |-> validated_items, errors |-> errs, raised |-> TRUE]
             ELSE IF ValidateItem(item_data, context) # <<>>
             THEN LoadItems(items_data, j + 1, awesome_list_data, i, validated_items,
                            errs \o ValidateItem(item_data, context))
             ELSE LoadItems(items_data, j + 1, awesome_list_data, i,
                            Append(validated_items, LoadedItem(item_data, awesome_list_data)),
                            errs)

\* the loop over enumerate(lists_data), from the list of index i:
\* <<validated_data, validation_errors>>
RECURSIVE LoadLists(_, _, _, _)
LoadLists(lists_data, i, validated_data, validation_errors) ==
    IF i >= Len(lists_data) THEN <<validated_data, validation_errors>>
    ELSE LET awesome_list_data == lists_data[i + 1]
             context == Msg_List \o IntToText(i)
             raise == <<context \o Msg_NotIterable>>
         IN  IF awesome_list_data.t # "obj"
             THEN LoadLists(lists_data, i + 1, validated_data, validation_errors \o raise)
             ELSE IF Key_topic \notin DOMAIN awesome_list_data.v
             THEN LoadLists(lists_data, i + 1, validated_data,
                            Append(validation_errors, context \o Msg_MissingTopic))
             ELSE IF Key_items \notin DOMAIN awesome_list_data.v
             THEN LoadLists(lists_data, i + 1, validated_data,
                            Append(validation_errors, context \o Msg_MissingItems))
             ELSE IF awesome_list_data.v[Key_items].t # "arr"
             THEN LoadLists(lists_data, i + 1, validated_data, validation_errors \o raise)
             ELSE LET result == LoadItems(awesome_list_data.v[Key_items].v, 0,
                                          awesome_list_data, i, <<>>, <<>>)
                  IN  IF result.raised
                      THEN LoadLists(lists_data, i + 1, validated_data,
                                     validation_errors \o result.errors \o raise)
                      ELSE LoadLists(lists_data, i + 1,
                               Append(validated_data,
                                   [topic |-> Plain(awesome_list_data.v[Key_topic]),
                                    items |-> result.items,
                                    source_file |-> Plain(Get(awesome_list_data, Key_source_file,
                                                              StrValue(Msg_Unknown)))]),
                               validation_errors \o result.errors)

\* _update_all_items: the items of all the lists
RECURSIVE AllItems(_)
AllItems(lists) ==
    IF lists = <<>> THEN <<>> ELSE Head(lists).items \o AllItems(Tail(lists))

\* load_cache_data: the DataLoader after the call, with the returned
\* (success, error_messages)
load_cache_data(text) ==
    LET cache_data == json_loads(text)
        NotALoad(message) ==
            [success |-> FALSE, errors |-> <<message>>, cache_data |-> <<>>,
             all_items |-> <<>>, cache_metadata |-> <<>>]
    IN  IF text = <<>> THEN NotALoad(Msg_CacheEmpty)
        ELSE IF cache_data.t \notin {"arr", "obj"} THEN NotALoad(Msg_ErrorLoading)
        ELSE IF cache_data.t = "obj" /\ Get(cache_data, Key_lists, EmptyArr).t # "arr"
        THEN NotALoad(Msg_ErrorLoading)
        ELSE IF cache_data.t = "obj" /\ Get(cache_data, Key_metadata, EmptyObj).t # "obj"
        THEN NotALoad(Msg_ErrorLoading)
        ELSE LET lists_data == IF cache_data.t = "arr" THEN cache_data.v
                               ELSE Get(cache_data, Key_lists, EmptyArr).v
                 meta == Get(cache_data, Key_metadata, EmptyObj)
                 result == LoadLists(lists_data, 0, <<>>, <<>>)
             IN  [success |-> TRUE,
                  errors |-> result[2],
                  cache_data |-> result[1],
                  all_items |-> AllItems(result[1]),
                  cache_metadata |->
                      IF cache_data.t = "arr" THEN <<>>
                      ELSE [topics |-> Plain(Get(meta, Key_topics, EmptyArr)),
                            tags |-> Plain(Get(meta, Key_tags, EmptyArr)),
                            total_items |-> Plain(Get(meta, Key_total_items, NumValue(0))),
                            total_lists |-> Plain(Get(meta, Key_total_lists, NumValue(0)))]]

(***************************************************************************)
(* Specification SpecBatch: the cache pipeline over a file system of the   *)
(* paths BatchPaths, each missing, unreadable or holding one of FileTexts, *)
(* for every list of at most MaxPaths paths and every ExcludeOptions.      *)
(***************************************************************************)
MaxPaths == 3

Path_One == <<"p","1">>
Path_Two == <<"p","2">>
BatchPaths == {Path_One, Path_Two}

Text_Tools == <<"#"," ","T","\n","-"," ","A"," ","#","x">>      \* "# T\n- A #x"
Text_More == <<"#"," ","T","\n","-"," ","B"," ","#","y"," ","<","h","t","t","p",":","/","/","b",">","\n","-"," ","C"," ","#","x"," ","#","y">>       \* "# T\n- B #y <http://b>\n- C #x #y"
Text_Quoted == <<"#"," ","U","\n","#","#"," ","S"," ","#","s","\n","-"," ","\"","D","\\">>     \* "# U\n## S #s\n- \"D\\"
Text_NoTopic == <<"#","#"," ","S","\n","-"," ","A">>    \* "## S\n- A"
Text_ListFront == <<"-","-","-","\n","-"," ","x","\n","-","-","-","\n","#"," ","T","\n","-"," ","A">>  \* "---\n- x\n---\n# T\n- A"
Text_NoItems == <<"#"," ","V">>    \* "# V"

FileTexts == {Text_Tools, Text_More, Text_Quoted, Text_NoTopic, Text_ListFront, Text_NoItems}

MissingFile == [exists |-> FALSE, readable |-> FALSE, text |-> <<>>]
UnreadableFile == [exists |-> TRUE, readable |-> FALSE, text |-> <<>>]
FileStates ==
    {MissingFile, UnreadableFile}
        \cup {[exists |-> TRUE, readable |-> TRUE, text |-> t] : t \in FileTexts}

ExcludeOptions == { <<>>, << <<"x">> >>, << <<"y">>, <<"s">> >>, << <<"X">> >> }

InitBatch ==
    /\ pc = "start"
    /\ files \in [BatchPaths -> FileStates]
    /\ paths \in SeqsUpTo(BatchPaths, MaxPaths)
    /\ exclude_tags \in ExcludeOptions
    /\ awesome_lists = <<>> /\ errors = <<>> /\ cache_text = <<>> /\ loader = NotLoaded
    /\ IdleFilter
    /\ IdleWalk
    /\ IdleMore
    /\ IdleNormalize
    /\ IdleInherit
    /\ IdleHeadings
    /\ IdleFrontmatter
    /\ IdleItem
    /\ IdleDocument

batchIn == <<files, paths, exclude_tags>>
otherVars ==
    <<normVars, inheritVars, headingVars, frontVars, itemVars, document, filterVars, walkVars, moreVars>>

ParseAllFiles ==
    /\ pc = "start"
    /\ LET result == parse_all_files(files, paths, <<>>, <<>>)
       IN  awesome_lists' = result[1] /\ errors' = result[2]
    /\ pc' = "parsed"
    /\ UNCHANGED <<batchIn, cache_text, loader, otherVars>>

ApplyExcludeTags ==
    /\ pc = "parsed"
    /\ awesome_lists' = apply_exclude_tags_to_lists(awesome_lists, exclude_tags)
    /\ pc' = "filtered"
    /\ UNCHANGED <<batchIn, errors, cache_text, loader, otherVars>>

\* generate_awesome_list_json, its text then written by write_cache_file
GenerateAwesomeListJson ==
    /\ pc = "start"
    /\ cache_text' = generate_awesome_list_json(files, paths, exclude_tags)
    /\ pc' = "generated"
    /\ UNCHANGED <<batchIn, awesome_lists, errors, loader, otherVars>>

LoadCacheData ==
    /\ pc = "generated"
    /\ loader' = load_cache_data(cache_text)
    /\ pc' = "loaded"
    /\ UNCHANGED <<batchIn, awesome_lists, errors, cache_text, otherVars>>

NextBatch == ParseAllFiles \/ ApplyExcludeTags \/ GenerateAwesomeListJson \/ LoadCacheData

SpecBatch == InitBatch /\ [][NextBatch]_vars

\* the file at path p can be read and its text has a topic
Parses(p) ==
    /\ files[p].exists
    /\ files[p].readable
    /\ parse_markdown_content(files[p].text).error = "none"

\* the paths of the batch that parse, and those that do not, in batch order
ParsedPaths == Pick(paths, {i \in DOMAIN paths : Parses(paths[i])})
FailedPaths == Pick(paths, {i \in DOMAIN paths : ~Parses(paths[i])})

\* C12: every path of the batch gives exactly one outcome: the documents are
\* those of the paths that parse, in the order of the paths, and the errors
\* are one string per other path, each naming its path; a failure does not
\* stop the later files from being parsed.
C12_OneOutcomePerPath ==
    pc = "parsed" =>
        /\ Len(awesome_lists) + Len(errors) = Len(paths)
        /\ [i \in DOMAIN awesome_lists |-> awesome_lists[i].source_file] = ParsedPaths
        /\ \A i \in DOMAIN awesome_lists :
              awesome_lists[i].topic = parse_markdown_content(files[ParsedPaths[i]].text).topic
        /\ Len(errors) = Len(FailedPaths)
        /\ \A k \in DOMAIN errors : Contains(errors[k], FailedPaths[k])

\* a file that fails precedes, in the batch, a file that parses
C12_Witness ==
    /\ pc = "parsed"
    /\ \E i, j \in DOMAIN paths : i < j /\ ~Parses(paths[i]) /\ Parses(paths[j])
    /\ errors # <<>>
    /\ awesome_lists # <<>>

\* the lists before the exclusion filter
UnfilteredLists == parse_all_files(files, paths, <<>>, <<>>)[1]

\* the item carries a tag of the exclusion list
Excluded(item) == \E n \in DOMAIN exclude_tags : InList(exclude_tags[n], item.tags)

\* C14: the filter removes the items that carry an excluded tag and nothing
\* else: the kept items are the others, in their order, and the lists keep
\* their number, order, topic and source_file, also when no item is left.
C14_ExcludesExactlyTagged ==
    pc = "filtered" =>
        /\ Len(awesome_lists) = Len(UnfilteredLists)
        /\ \A i \in DOMAIN awesome_lists :
              /\ awesome_lists[i].topic = UnfilteredLists[i].topic
              /\ awesome_lists[i].source_file = UnfilteredLists[i].source_file
              /\ awesome_lists[i].items =
                     Pick(UnfilteredLists[i].items,
                          {n \in DOMAIN UnfilteredLists[i].items :
                              ~Excluded(UnfilteredLists[i].items[n])})
              /\ \A n \in DOMAIN awesome_lists[i].items : ~Excluded(awesome_lists[i].items[n])

\* one list loses all its items and stays, another keeps an item
C14_Witness ==
    /\ pc = "filtered"
    /\ exclude_tags # <<>>
    /\ \E i, j \in DOMAIN awesome_lists :
          /\ awesome_lists[i].items = <<>> /\ UnfilteredLists[i].items # <<>>
          /\ awesome_lists[j].items # <<>>
          /\ Len(awesome_lists[j].items) < Len(UnfilteredLists[j].items)

\* the lists that generate_awesome_list_json emits
EmittedLists ==
    IF exclude_tags # <<>>
    THEN apply_exclude_tags_to_lists(UnfilteredLists, exclude_tags)
    ELSE UnfilteredLists

\* the dict of the JSON text of the cache
CacheValue == Plain(json_loads(cache_text))

\* the list of str is in strictly increasing order
StrictlySorted(list) ==
    \A i, j \in DOMAIN list : i < j => (StrLeq(list[i], list[j]) /\ list[i] # list[j])

\* C13: the metadata of the generated text agrees with its lists: the two
\* totals count the lists and their items, tags is the sorted duplicate-free
\* list of the tags of the emitted items, topics that of the topics of the
\* emitted lists; the lists are those left by the exclusion filter.
C13_MetadataMatchesLists ==
    pc = "generated" =>
        LET meta == CacheValue[Key_metadata]
            lists == CacheValue[Key_lists]
        IN  /\ Len(lists) = Len(EmittedLists)
            /\ \A i \in DOMAIN lists :
                  /\ lists[i][Key_topic] = EmittedLists[i].topic
                  /\ Len(lists[i][Key_items]) = Len(EmittedLists[i].items)
                  /\ \A n \in DOMAIN lists[i][Key_items] : 
                        ~Excluded([tags |-> lists[i][Key_items][n][Key_tags]])
            /\ meta[Key_total_lists] = Len(lists)
            /\ meta[Key_total_items] = TotalItems([i \in DOMAIN lists |-> [items |-> lists[i][Key_items]]])
            /\ StrictlySorted(meta[Key_tags])
            /\ Range(meta[Key_tags]) =
                   UNION {UNION {Range(lists[i][Key_items][n][Key_tags]) :
                                    n \in DOMAIN lists[i][Key_items]} : i \in DOMAIN lists}
            /\ StrictlySorted(meta[Key_topics])
            /\ Range(meta[Key_topics]) = {lists[i][Key_topic] : i \in DOMAIN lists}

\* the filter removed the only items with some tag, two lists share a topic
\* and two tags are left
C13_Witness ==
    /\ pc = "generated"
    /\ exclude_tags # <<>>
    /\ AllTags(EmittedLists) # AllTags(UnfilteredLists)
    /\ Len(CacheValue[Key_metadata][Key_topics]) < CacheValue[Key_metadata][Key_total_lists]
    /\ Len(CacheValue[Key_metadata][Key_tags]) >= 2

\* C15: loading the generated text gives, without validation errors, the
\* items of the emitted lists in their order, each with the same title, link,
\* description, tags, sections, topic, source_file and line_number.
C15_RoundTrip ==
    pc = "loaded" =>
        /\ loader.success
        /\ loader.errors = <<>>
        /\ loader.all_items = AllItems(EmittedLists)
        /\ Len(loader.cache_data) = Len(EmittedLists)
        /\ \A i \in DOMAIN loader.cache_data : loader.cache_data[i] = EmittedLists[i]

\* items of two lists, one with a title that has to be escaped
C15_Witness ==
    /\ pc = "loaded"
    /\ Len(loader.cache_data) >= 2
    /\ Len(loader.all_items) >= 3
    /\ \E n \in DOMAIN loader.all_items :
          /\ InList("\\", loader.all_items[n].title)
          /\ loader.all_items[n].sections # <<>>
          /\ loader.all_items[n].line_number = 3

(***************************************************************************)
(* filter_manager.FilterManager.  An item is [title, tags, topic]: the     *)
(* fields the manager reads, and the title to tell the items apart.  The   *)
(* search query, kept for the status line only, is left out.               *)
(***************************************************************************)
\* _filter_excluded_tags: the items without those that carry a tag of exclude
_filter_excluded_tags(exclude, items) ==
    IF exclude = {} THEN items
    ELSE SelectSeq(items, LAMBDA item : Range(item.tags) \cap exclude = {})

\* item.get("topic", "Unknown") or "Unknown"
Unknown == <<"U","n","k","n","o","w","n">>
TopicOf(item) == IF item.topic = <<>> THEN Unknown ELSE item.topic

\* _build_tag_counts: the occurrences of every tag that is not blank
_build_tag_counts(items) ==
    LET counted == {t \in UNION {Range(items[i].tags) : i \in DOMAIN items} :
                       t # <<>> /\ Strip(t) # <<>>}
    IN  [t \in counted |->
            Cardinality({at \in UNION {{i} \X DOMAIN items[i].tags : i \in DOMAIN items} :
                            items[at[1]].tags[at[2]] = t})]

\* _build_topic_counts: the number of items of every topic
_build_topic_counts(items) ==
    [t \in {TopicOf(items[i]) : i \in DOMAIN items} |->
        Cardinality({i \in DOMAIN items : TopicOf(items[i]) = t})]

\* _update_filtered_items that treats the selected tags as in OR mode always
_update_filtered_items_or_only(search, items, topics, tags, mode) ==
    LET base_items == IF search # <<>> THEN search ELSE items
        topic_filtered ==
            IF topics # {}
            THEN SelectSeq(base_items, LAMBDA item : TopicOf(item) \in topics)
            ELSE base_items
    IN  IF tags = {} THEN topic_filtered
        ELSE SelectSeq(topic_filtered, LAMBDA item : tags \cap Range(item.tags) # {})

\* _update_filtered_items: the new value of _filtered_items
_update_filtered_items(search, items, topics, tags, mode) ==
    LET base_items == IF search # <<>> THEN search ELSE items
        topic_filtered ==
            IF topics # {}
            THEN SelectSeq(base_items, LAMBDA item : TopicOf(item) \in topics)
            ELSE base_items
    IN  IF tags = {} THEN topic_filtered
        ELSE IF mode = "and"
        THEN SelectSeq(topic_filtered, LAMBDA item : tags \subseteq Range(item.tags))
        ELSE SelectSeq(topic_filtered, LAMBDA item : tags \cap Range(item.tags) # {})

\* a method that changes the selection, the mode or the search results and
\* ends with _update_filtered_items()
Refilter(tags, topics, mode, search) ==
    /\ _selected_tags' = tags
    /\ _selected_topics' = topics
    /\ _filter_mode' = mode
    /\ _search_filtered_items' = search
    /\ _filtered_items' = _update_filtered_items(search, _items, topics, tags, mode)
    /\ UNCHANGED <<_all_items, _exclude_tags, _items, _tag_counts, _topic_counts>>

\* update_items and set_exclude_tags after their first assignment: the items
\* are filtered again, the counts rebuilt, the selections cut down to the
\* tags and topics that exist, the search results cleared
Rebuild(items, exclude) ==
    LET kept == _filter_excluded_tags(exclude, items)
        valid_tags == DOMAIN _build_tag_counts(kept)
        valid_topics == DOMAIN _build_topic_counts(kept)
    IN  /\ _all_items' = items
        /\ _exclude_tags' = exclude
        /\ _items' = kept
        /\ _tag_counts' = _build_tag_counts(kept)
        /\ _topic_counts' = _build_topic_counts(kept)
        /\ _selected_tags' = _selected_tags \cap valid_tags
        /\ _selected_topics' = _selected_topics \cap valid_topics
        /\ _search_filtered_items' = <<>>
        /\ _filtered_items' = _update_filtered_items(<<>>, kept,
                                  _selected_topics \cap valid_topics,
                                  _selected_tags \cap valid_tags, _filter_mode)
        /\ UNCHANGED _filter_mode

add_topic_filter(topic) ==
    IF topic \in DOMAIN _topic_counts
    THEN Refilter(_selected_tags, _selected_topics \cup {topic}, _filter_mode,
                  _search_filtered_items)
    ELSE UNCHANGED filterVars

remove_topic_filter(topic) ==
    Refilter(_selected_tags, _selected_topics \ {topic}, _filter_mode, _search_filtered_items)

toggle_topic_filter(topic) ==
    IF topic \in _selected_topics THEN remove_topic_filter(topic) ELSE add_topic_filter(topic)

\* add_tag_filter without the test that the tag exists
add_tag_filter_unchecked(tag_name) ==
    Refilter(_selected_tags \cup {tag_name}, _selected_topics, _filter_mode, _search_filtered_items)

add_tag_filter(tag_name) ==
    IF tag_name \in DOMAIN _tag_counts
    THEN Refilter(_selected_tags \cup {tag_name}, _selected_topics, _filter_mode,
                  _search_filtered_items)
    ELSE UNCHANGED filterVars

remove_tag_filter(tag_name) ==
    Refilter(_selected_tags \ {tag_name}, _selected_topics, _filter_mode, _search_filtered_items)

toggle_tag_filter(tag_name) ==
    IF tag_name \in _selected_tags THEN remove_tag_filter(tag_name) ELSE add_tag_filter(tag_name)

clear_filters == Refilter({}, {}, _filter_mode, _search_filtered_items)

set_filter_mode(mode) ==
    Refilter(_selected_tags, _selected_topics, mode, _search_filtered_items)

toggle_filter_mode ==
    IF _filter_mode = "and" THEN set_filter_mode("or") ELSE set_filter_mode("and")

set_search_results(search_results) ==
    Refilter(_selected_tags, _selected_topics, _filter_mode, search_results)

clear_search_results == Refilter(_selected_tags, _selected_topics, _filter_mode, <<>>)

update_items(items) == Rebuild(items, _exclude_tags)

set_exclude_tags(exclude) == Rebuild(_all_items, Range(exclude))

(***************************************************************************)
(* Specification SpecFilter: a FilterManager built on any list of at most  *)
(* MaxItems items of ItemPool and any FilterExcludeOptions, then any       *)
(* sequence of calls of its methods.  Search results are, as in            *)
(* AwesomeListApp.apply_search, a sub-list of the items as given.          *)
(***************************************************************************)
MaxItems == 2

Tag_x == <<"x">>
Tag_y == <<"y">>
Tag_z == <<"z">>
Topic_T == <<"T">>
Topic_U == <<"U">>
Topic_W == <<"W">>

Item_A == [title |-> <<"A">>, tags |-> <<Tag_x, Tag_y>>, topic |-> Topic_T]
Item_B == [title |-> <<"B">>, tags |-> <<Tag_y>>, topic |-> Topic_T]
Item_C == [title |-> <<"C">>, tags |-> <<Tag_x>>, topic |-> Topic_U]
Item_D == [title |-> <<"D">>, tags |-> <<>>, topic |-> Topic_U]

ItemPool == {Item_A, Item_B, Item_C, Item_D}
ItemLists == SeqsUpTo(ItemPool, MaxItems)
FilterTags == {Tag_x, Tag_y, Tag_z}
FilterTopics == {Topic_T, Topic_U, Topic_W}
FilterModes == {"and", "or"}
FilterExcludeOptions == { <<>>, <<Tag_x>>, <<Tag_y, Tag_z>> }

\* the sub-lists of list
SubLists(list) == {Pick(list, K) : K \in SUBSET DOMAIN list}

\* FilterManager(items, exclude_tags)
InitFilter ==
    /\ pc = "ready"
    /\ _all_items \in ItemLists
    /\ \E exclude \in FilterExcludeOptions : _exclude_tags = Range(exclude)
    /\ _items = _filter_excluded_tags(_exclude_tags, _all_items)
    /\ _selected_tags = {}
    /\ _selected_topics = {}
    /\ _filter_mode = "or"
    /\ _tag_counts = _build_tag_counts(_items)
    /\ _topic_counts = _build_topic_counts(_items)
    /\ _filtered_items = _items
    /\ _search_filtered_items = <<>>
    /\ IdleBatch
    /\ IdleWalk
    /\ IdleMore
    /\ IdleNormalize
    /\ IdleInherit
    /\ IdleHeadings
    /\ IdleFrontmatter
    /\ IdleItem
    /\ IdleDocument

filterOther ==
    <<pc, normVars, inheritVars, headingVars, frontVars, itemVars, document, batchVars, walkVars, moreVars>>

AddTagFilter == (\E t \in FilterTags : add_tag_filter(t)) /\ UNCHANGED filterOther
RemoveTagFilter == (\E t \in FilterTags : remove_tag_filter(t)) /\ UNCHANGED filterOther
ToggleTagFilter == (\E t \in FilterTags : toggle_tag_filter(t)) /\ UNCHANGED filterOther
AddTopicFilter == (\E t \in FilterTopics : add_topic_filter(t)) /\ UNCHANGED filterOther
RemoveTopicFilter == (\E t \in FilterTopics : remove_topic_filter(t)) /\ UNCHANGED filterOther
ToggleTopicFilter == (\E t \in FilterTopics : toggle_topic_filter(t)) /\ UNCHANGED filterOther
ClearFilters == clear_filters /\ UNCHANGED filterOther
SetFilterMode == (\E m \in FilterModes : set_filter_mode(m)) /\ UNCHANGED filterOther
ToggleFilterMode == toggle_filter_mode /\ UNCHANGED filterOther
SetSearchResults ==
    (\E results \in SubLists(_all_items) : set_search_results(results)) /\ UNCHANGED filterOther
ClearSearchResults == clear_search_results /\ UNCHANGED filterOther
UpdateItems == (\E items \in ItemLists : update_items(items)) /\ UNCHANGED filterOther
SetExcludeTags ==
    (\E exclude \in FilterExcludeOptions : set_exclude_tags(exclude)) /\ UNCHANGED filterOther

NextFilter ==
    \/ AddTagFilter \/ RemoveTagFilter \/ ToggleTagFilter
    \/ AddTopicFilter \/ RemoveTopicFilter \/ ToggleTopicFilter
    \/ ClearFilters \/ SetFilterMode \/ ToggleFilterMode
    \/ SetSearchResults \/ ClearSearchResults
    \/ UpdateItems \/ SetExcludeTags

SpecFilter == InitFilter /\ [][NextFilter]_vars

\* the item carries a tag of the exclude-tag set
CarriesExcluded(item) == \E n \in DOMAIN item.tags : item.tags[n] \in _exclude_tags

\* the list that is filtered: the search results when there are some, the
\* items without the excluded ones otherwise
BaseList ==
    IF _search_filtered_items # <<>> THEN _search_filtered_items
    ELSE Pick(_all_items, {i \in DOMAIN _all_items : ~CarriesExcluded(_all_items[i])})

\* the item passes the selected topics and the selected tags
PassesFilters(item) ==
    /\ _selected_topics # {} => item.topic \in _selected_topics
    /\ _selected_tags # {} =>
          IF _filter_mode = "and"
          THEN \A t \in _selected_tags : InList(t, item.tags)
          ELSE \E t \in _selected_tags : InList(t, item.tags)

\* C17: whatever methods were called, get_filtered_items is the list, in base
\* order, of the items of the base list whose topic is one of the selected
\* topics (when there are any) and whose tags hold all the selected tags in
\* AND mode, one of them in OR mode (when there are any).
C17_FilteredIsBaseFiltered ==
    _filtered_items = Pick(BaseList, {i \in DOMAIN BaseList : PassesFilters(BaseList[i])})

\* search results, a topic and two tags in AND mode: one item of two is left
C17_Witness ==
    /\ _search_filtered_items # <<>>
    /\ _selected_topics = {Topic_T}
    /\ _selected_tags = {Tag_x, Tag_y}
    /\ _filter_mode = "and"
    /\ Len(_search_filtered_items) = 2
    /\ Len(_filtered_items) = 1

\* C18: no item that get_filtered_items returns carries a tag of the current
\* exclude-tag set, also while search results are active.
C18_NoExcludedItemReturned ==
    \A n \in DOMAIN _filtered_items : ~CarriesExcluded(_filtered_items[n])

\* the tags and the topics of the items that carry no excluded tag
ExistingTags ==
    UNION {Range(_all_items[i].tags) :
              i \in {k \in DOMAIN _all_items : ~CarriesExcluded(_all_items[k])}}
ExistingTopics ==
    {_all_items[i].topic : i \in {k \in DOMAIN _all_items : ~CarriesExcluded(_all_items[k])}}

\* C19: the available tags and topics are those of the items that are not
\* excluded, and the selected tags and topics are always among them; a call
\* that changes the items or the exclude-tag set keeps exactly the selections
\* that still exist.
C19_SelectionsAreAvailable ==
    /\ [](/\ DOMAIN _tag_counts = ExistingTags
          /\ DOMAIN _topic_counts = ExistingTopics
          /\ _selected_tags \subseteq DOMAIN _tag_counts
          /\ _selected_topics \subseteq DOMAIN _topic_counts)
    /\ [][(_all_items' # _all_items \/ _exclude_tags' # _exclude_tags) =>
             /\ _selected_tags' = _selected_tags \cap ExistingTags'
             /\ _selected_topics' = _selected_topics \cap ExistingTopics']_vars

\* a tag and a topic are selected while another tag, carried by an excluded
\* item only, is not available
C19_Witness ==
    /\ _exclude_tags = {Tag_x}
    /\ _selected_tags = {Tag_y}
    /\ _selected_topics = {Topic_T}
    /\ \E i \in DOMAIN _all_items : InList(Tag_x, _all_items[i].tags)
    /\ Tag_x \notin DOMAIN _tag_counts

(***************************************************************************)
(* The single-pass alternative to the per-item re-derivation: the body     *)
(* lines are streamed once and a stack of the open headings is kept; an    *)
(* item reads its ancestor tags and its section path off the stack.        *)
(* The repository has no such walk; it is the alternative the              *)
(* specification allows, set beside what process_item computes for the     *)
(* same item from the full heading list.                                   *)
(***************************************************************************)
\* the heading a heading line opens, parsed as extract_headings parses it
WalkHeading(line, line_num) ==
    LET groups == HeadingGroups(Strip(line))
        parsed == parse_heading_tags(groups[2])
    IN  [level |-> groups[1], text |-> groups[2], clean_text |-> parsed[1],
         tags |-> parsed[2], line_number |-> line_num]

\* the stack without the headings on top of it that are as deep as level
RECURSIVE PopTo(_, _)
PopTo(stack, level) ==
    IF stack # <<>> /\ stack[Len(stack)].level >= level
    THEN PopTo(SubSeq(stack, 1, Len(stack) - 1), level)
    ELSE stack

\* a heading closes the open headings that are as deep as it and opens
PushHeading(stack, heading) == Append(PopTo(stack, heading.level), heading)

\* the normalised tags of the open headings of level 2 or deeper, bottom up,
\* first occurrences only
RECURSIVE StackTags(_)
StackTags(stack) ==
    IF stack = <<>> THEN <<>>
    ELSE LET below == StackTags(SubSeq(stack, 1, Len(stack) - 1))
             top == stack[Len(stack)]
         IN  IF top.level >= 2 THEN AppendNormalized(below, top.tags) ELSE below

\* the names of the open headings of level 2 or deeper that have one
StackSections(stack) ==
    LET open == SelectSeq(stack, LAMBDA h : h.level >= 2 /\ h.clean_text # <<>>)
    IN  [k \in DOMAIN open |-> open[k].clean_text]

(***************************************************************************)
(* SpecWalk: the headings of a body are extracted, then its lines are      *)
(* streamed once; at each bullet line process_item's two calls are made    *)
(* for the item of that line and the walk records what the stack gives.    *)
(***************************************************************************)
Line_Indented == <<" "," ","#","#","#","#"," ","E"," ","#","e">>    \* "  #### E #e"
Line_Text == <<" "," ","t">>                                        \* "  t"

WalkLinePool == {Line_H1, Line_H2a, Line_H2c, Line_H3, Line_Indented, Line_Item, Line_Text}

InitWalk ==
    /\ pc = "start"
    /\ \E lines \in SeqsUpTo(WalkLinePool, MaxHeadingLines) : content = JoinLines(lines)
    /\ position = 0
    /\ headings = <<>>
    /\ ancestor_tags = <<>>
    /\ sections = <<>>
    /\ IdleNormalize
    /\ IdleInherit
    /\ IdleFrontmatter
    /\ IdleItem
    /\ IdleDocument
    /\ IdleBatch
    /\ IdleFilter
    /\ IdleWalk
    /\ IdleMore

walkOther ==
    <<content, headings, normVars, inheritVars, frontVars, itemVars, document, batchVars,
      filterVars, moreVars>>

Streaming == pc \in {"extracted", "walking"} /\ walk_line < Len(SplitLines(content))

NextLine == SplitLines(content)[walk_line + 1]

\* the next line is a heading: it goes on the stack
WalkHeadingLine ==
    /\ Streaming
    /\ HeadingMatches(Strip(NextLine))
    /\ heading_stack' = PushHeading(heading_stack, WalkHeading(NextLine, walk_line + 1))
    /\ walk_line' = walk_line + 1
    /\ pc' = "walking"
    /\ UNCHANGED <<walk_items, position, ancestor_tags, sections, walkOther>>

\* the next line is a bullet: the walk reads the stack, and process_item
\* derives the same two lists from the full heading list
WalkItemLine ==
    /\ Streaming
    /\ ~HeadingMatches(Strip(NextLine))
    /\ BulletMatches(NextLine)
    /\ walk_items' = Append(walk_items, [line_number |-> walk_line + 1,
                                          ancestor_tags |-> StackTags(heading_stack),
                                          sections |-> StackSections(heading_stack)])
    /\ position' = walk_line + 1
    /\ ancestor_tags' = get_ancestor_tags(headings, walk_line + 1)
    /\ sections' = build_section_names(headings, walk_line + 1)
    /\ walk_line' = walk_line + 1
    /\ pc' = "walking"
    /\ UNCHANGED <<heading_stack, walkOther>>

\* any other line leaves the stack alone
WalkOtherLine ==
    /\ Streaming
    /\ ~HeadingMatches(Strip(NextLine))
    /\ ~BulletMatches(NextLine)
    /\ walk_line' = walk_line + 1
    /\ pc' = "walking"
    /\ UNCHANGED <<heading_stack, walk_items, position, ancestor_tags, sections, walkOther>>

NextWalk == ExtractHeadings \/ WalkHeadingLine \/ WalkItemLine \/ WalkOtherLine

SpecWalk == InitWalk /\ [][NextWalk]_vars

\* the line numbers of the raw items extract_list_items finds up to a line
ItemLinesUpTo(n) ==
    LET raw_items == extract_list_items(content)
        seen == SelectSeq(raw_items, LAMBDA it : it.line_number <= n)
    IN  [k \in DOMAIN seen |-> seen[k].line_number]

MaxBlockLines == 3

Blk_Dash == <<"-"," ","A">>                  \* "- A"
Blk_Star == <<" ","*"," ","B"," ">>          \* " * B "
Blk_Nested == <<" "," ","-",TAB,"N">>        \* "  -<TAB>N"
Blk_Spaces == <<"-"," "," ">>                \* "-  "
Blk_NoText == <<"-"," ">>                    \* "- "
Blk_NoGap == <<"-","x">>                     \* "-x"
Blk_More == <<" "," ","c"," ">>              \* "  c "
Blk_Tabbed == <<TAB,"d">>                    \* "<TAB>d"
Blk_OneSpace == <<" ","e">>                  \* " e"
Blk_Text == <<"t">>                          \* "t"
Blk_Blank == <<" "," "," ">>                 \* "   "
Blk_Heading == <<"#","#"," ","S">>           \* "## S"
Blk_Indented == <<" "," ","#","#"," ","I">>  \* "  ## I"

BlockLinePool ==
    {Blk_Dash, Blk_Star, Blk_Nested, Blk_Spaces, Blk_NoText, Blk_NoGap, Blk_More, Blk_Tabbed,
     Blk_OneSpace, Blk_Text, Blk_Blank, Blk_Heading, Blk_Indented, <<>>}

InitBlocks ==
    /\ pc = "start"
    /\ \E lines \in SeqsUpTo(BlockLinePool, MaxBlockLines) : content = JoinLines(lines)
    /\ position = 0
    /\ headings = <<>>
    /\ ancestor_tags = <<>>
    /\ sections = <<>>
    /\ IdleNormalize
    /\ IdleInherit
    /\ IdleFrontmatter
    /\ IdleItem
    /\ IdleDocument
    /\ IdleRest

ExtractListItems ==
    /\ pc = "extracted"
    /\ item_blocks' = extract_list_items(content)
    /\ pc' = "listed"
    /\ UNCHANGED <<headingVars, normVars, inheritVars, frontVars, itemVars, document, batchVars,
                   filterVars, walkVars, dialogVars, logVars, loadVars>>

NextBlocks == ExtractHeadings \/ ExtractListItems

SpecBlocks == InitBlocks /\ [][NextBlocks]_vars

\* a bullet-start line: optional leading whitespace, '-' or '*', a
\* whitespace character and at least one more character
BulletStart(line) ==
    \E m \in DOMAIN line :
        /\ \A i \in 1..(m - 1) : IsSpace(line[i])
        /\ line[m] \in {"-", "*"}
        /\ Len(line) >= m + 2
        /\ IsSpace(line[m + 1])

\* the numbers of the bullet-start lines of the content, in line order
BulletLines ==
    LET lines == SplitLines(content)
    IN  SelectSeq([k \in DOMAIN lines |-> k], LAMBDA k : BulletStart(lines[k]))

\* C23: extract_list_items emits exactly one block per bullet-start line, in
\* document order, with strictly increasing positions that are the 1-based
\* numbers of the bullet lines; the block open at the end of the input is
\* emitted as well.
C23_OneBlockPerBulletLine ==
    pc = "listed" =>
        /\ [k \in DOMAIN item_blocks |-> item_blocks[k].line_number] = BulletLines
        /\ \A j, k \in DOMAIN item_blocks :
              j < k => item_blocks[j].line_number < item_blocks[k].line_number
        /\ \A k \in DOMAIN item_blocks : item_blocks[k].raw_text # <<>>

\* two blocks, the first closed by the second bullet, the second by the end
\* of the input, after a line that misses the gap of a bullet
C23_Witness ==
    /\ pc = "listed"
    /\ Len(item_blocks) = 2
    /\ item_blocks[1].line_number = 2
    /\ item_blocks[2].line_number = 3
    /\ SplitLines(content)[1] = Blk_NoGap

\* the line after the last line of block k: the next bullet line, or the
\* end of the input
BlockEnd(k) ==
    IF k < Len(item_blocks) THEN item_blocks[k + 1].line_number
    ELSE Len(SplitLines(content)) + 1

\* a non-blank line that begins with two spaces or a tab
Indented(line) ==
    /\ \E i \in DOMAIN line : ~IsSpace(line[i])
    /\ \/ (Len(line) >= 2 /\ line[1] = " " /\ line[2] = " ")
       \/ (Len(line) >= 1 /\ line[1] = TAB)

\* the lines extract_headings records as headings
HeadingLineNumbers == {headings[i].line_number : i \in DOMAIN headings}

\* the trimmed lines after the bullet line of block k, up to its end, whose
\* numbers are in Taken
Continuation(k, Taken) ==
    LET lines == SplitLines(content)
        taken == SelectSeq([j \in DOMAIN lines |-> j],
                           LAMBDA j : /\ j > item_blocks[k].line_number
                                      /\ j < BlockEnd(k)
                                      /\ j \in Taken)
    IN  [n \in DOMAIN taken |-> Strip(lines[taken[n]])]

IndentedLineNumbers ==
    {j \in DOMAIN SplitLines(content) : Indented(SplitLines(content)[j])}

\* C24 as stated: a block stays open until the next bullet or the end of the
\* input and takes, trimmed and in line order, the indented non-blank lines
\* in between, while blank lines, unindented lines and heading lines add
\* nothing to it.
C24_HeadingsAddNothing ==
    pc = "listed" =>
        \A k \in DOMAIN item_blocks :
            Tail(item_blocks[k].raw_text) =
                Continuation(k, IndentedLineNumbers \ HeadingLineNumbers)

\* C24: a block stays open until the next bullet or the end of the input and
\* takes, trimmed and in line order, every indented non-blank line in
\* between, an indented heading line included; blank lines and unindented
\* lines, unindented heading lines among them, add nothing to it.
C24_IndentedLinesContinue ==
    pc = "listed" =>
        \A k \in DOMAIN item_blocks :
            Tail(item_blocks[k].raw_text) = Continuation(k, IndentedLineNumbers)

\* a block that a heading and a blank line leave open and a later indented
\* line continues
C24_Witness ==
    /\ pc = "listed"
    /\ Len(item_blocks) = 1
    /\ SplitLines(content) = <<Blk_Dash, Blk_Heading, Blk_More>>
    /\ item_blocks[1].raw_text = << <<"A">>, <<"c">> >>

(***************************************************************************)
(* The DataLoader singleton over the life of the cache file: the file is   *)
(* written, removed and made unreadable by other programs, and             *)
(* load_cache_data is called again and again on the one self             *)
(* (app/app/data_loader.py).  The path of the cache file is left out of    *)
(* the messages.                                                           *)
(***************************************************************************)
MaxCacheLists == 2
MaxClock == 3

Msg_DoesNotExist == <<"C","a","c","h","e"," ","f","i","l","e"," ","d","o","e","s"," ","n","o","t"," ","e","x","i","s","t">>    \* "Cache file does not exist"
Msg_Regenerate == <<"R","u","n"," ","-","-","r","e","g","e","n","e","r","a","t","e","-","c","a","c","h","e">>      \* "Run ... --regenerate-cache ..."
Msg_CannotReadCache == <<"C","a","n","n","o","t"," ","r","e","a","d"," ","c","a","c","h","e"," ","f","i","l","e">>   \* "Cannot read cache file"
Msg_CheckPermissions == <<"C","h","e","c","k"," ","f","i","l","e"," ","p","e","r","m","i","s","s","i","o","n","s">>   \* "Check file permissions"
Msg_InvalidJson == <<"I","n","v","a","l","i","d"," ","J","S","O","N"," ","i","n"," ","c","a","c","h","e"," ","f","i","l","e">>   \* "Invalid JSON in cache file"

\* the items of the cache files of the model
CI_Good == dumps_dict(<<Key_title, Key_tags>>,
                      << dumps_str(<<"a">>), dumps_list(<< dumps_str(<<"t">>) >>) >>)
CI_Plain == dumps_dict(<<Key_title>>, << dumps_str(<<"d">>) >>)
CI_NoTitle == dumps_dict(<<Key_link>>, << dumps_str(<<"l">>) >>)
CI_TagsNotList == dumps_dict(<<Key_title, Key_tags>>, << dumps_str(<<"b">>), dumps_str(<<"t">>) >>)
CI_SectionsNotList == dumps_dict(<<Key_title, Key_sections>>, << dumps_str(<<"c">>), dumps_int(1) >>)
CI_NoTitleNoList == dumps_dict(<<Key_tags, Key_sections>>, << dumps_int(1), dumps_str(<<"s">>) >>)
CI_Number == dumps_int(7)

\* the list records of the cache files of the model
CL_Good ==
    dumps_dict(<<Key_topic, Key_items, Key_source_file>>,
               << dumps_str(<<"T">>), dumps_list(<<CI_Good>>), dumps_str(<<"f">>) >>)
CL_Mixed ==
    dumps_dict(<<Key_topic, Key_items>>,
               << dumps_str(<<"U">>),
                  dumps_list(<<CI_Plain, CI_NoTitle, CI_Good, CI_TagsNotList,
                               CI_SectionsNotList, CI_NoTitleNoList>>) >>)
CL_NoTopic == dumps_dict(<<Key_items>>, << dumps_list(<<CI_Good>>) >>)
CL_NoItems == dumps_dict(<<Key_topic>>, << dumps_str(<<"V">>) >>)
CL_NoGoodItem ==
    dumps_dict(<<Key_topic, Key_items>>, << dumps_str(<<"W">>), dumps_list(<<CI_NoTitle>>) >>)
CL_Number ==
    dumps_dict(<<Key_topic, Key_items>>,
               << dumps_str(<<"X">>), dumps_list(<<CI_Good, CI_Number>>) >>)

CacheListPool == {CL_Good, CL_Mixed, CL_NoTopic, CL_NoItems, CL_NoGoodItem, CL_Number}

\* the "metadata" written with n lists
CacheMetadataTokens(n) ==
    dumps_dict(<<Key_topics, Key_tags, Key_total_items, Key_total_lists>>,
               << dumps_list(<< dumps_str(<<"T">>) >>), dumps_list(<< dumps_str(<<"t">>) >>),
                  dumps_int(n), dumps_int(n) >>)

\* a cache file in the old format (a list) and in the new one (a dict)
OldFormat(lists) == dumps_list(lists)
NewFormat(lists) ==
    dumps_dict(<<Key_metadata, Key_lists>>,
               << CacheMetadataTokens(Len(lists)), dumps_list(lists) >>)

\* files that are not a cache: no JSON at all, a JSON string, a dict whose
\* "metadata" is a number, a dict whose "lists" is a number
Cache_NotJson == << [k |-> "bad", v |-> <<"x">>] >>
Cache_Text == dumps_str(<<"x">>)
Cache_MetadataNumber ==
    dumps_dict(<<Key_metadata, Key_lists>>, << dumps_int(5), dumps_list(<<CL_Good>>) >>)
Cache_ListsNumber ==
    dumps_dict(<<Key_metadata, Key_lists>>, << CacheMetadataTokens(9), dumps_int(5) >>)

CacheTexts ==
    {OldFormat(lists) : lists \in SeqsUpTo(CacheListPool, MaxCacheLists)}
        \cup {NewFormat(lists) : lists \in SeqsUpTo(CacheListPool, MaxCacheLists)}
        \cup {<<>>, Cache_NotJson, Cache_Text, Cache_MetadataNumber, Cache_ListsNumber}

\* what later writes put in the file
CacheRewrites ==
    {<<>>, Cache_NotJson, Cache_Text, Cache_MetadataNumber, Cache_ListsNumber,
     OldFormat(<<CL_Mixed>>), NewFormat(<<CL_Good, CL_Good>>)}

\* DataLoader.__init__
NewDataLoader ==
    [_cache_data |-> <<>>, _all_items |-> <<>>, _cache_metadata |-> [none |-> TRUE],
     _last_loaded |-> 0]

NoFile == [exists |-> FALSE, readable |-> FALSE, mtime |-> 0, tokens |-> <<>>]

\* load_result before the first call
NoLoad == [called |-> FALSE, success |-> FALSE, errors |-> <<>>, file |-> NoFile]

InitLoad ==
    /\ pc = "loader"
    /\ cache_file \in {[exists |-> TRUE, readable |-> TRUE, mtime |-> 1, tokens |-> t] :
                          t \in CacheTexts}
    /\ clock = 2
    /\ data_loader = NewDataLoader
    /\ load_result = NoLoad
    /\ IdleList
    /\ IdleDialog
    /\ IdleLog
    /\ IdleBatch
    /\ IdleFilter
    /\ IdleWalk
    /\ IdleNormalize
    /\ IdleInherit
    /\ IdleHeadings
    /\ IdleFrontmatter
    /\ IdleItem
    /\ IdleDocument

loadOther ==
    <<pc, normVars, inheritVars, headingVars, frontVars, itemVars, document, batchVars,
      filterVars, walkVars, listVars, dialogVars, logVars>>

\* validate_cache_file: (is_valid, error_messages)
validate_cache_file(file) ==
    IF ~file.exists THEN <<FALSE, <<Msg_DoesNotExist, Msg_Regenerate>> >>
    ELSE IF ~file.readable THEN <<FALSE, <<Msg_CannotReadCache, Msg_CheckPermissions>> >>
    ELSE IF file.tokens = <<>> THEN <<FALSE, <<Msg_CacheEmpty>> >>
    ELSE <<TRUE, <<>> >>

\* json.load raises JSONDecodeError on a text that does not start a value
IsJson(tokens) == tokens[1].k # "bad"

\* CacheMetadata(...) of the "metadata" dict
CacheMetadataOf(meta) ==
    [topics |-> Plain(Get(meta, Key_topics, EmptyArr)),
     tags |-> Plain(Get(meta, Key_tags, EmptyArr)),
     total_items |-> Plain(Get(meta, Key_total_items, NumValue(0))),
     total_lists |-> Plain(Get(meta, Key_total_lists, NumValue(0)))]

Failed(self, messages) ==
    [self |-> self, success |-> FALSE, errors |-> messages]

\* lines 136-146: the validated lists are stored; _last_loaded is set when
\* there is no validation error
StoreValidated(self, file, result) ==
    [self |-> [self EXCEPT !._cache_data = result[1],
                               !._all_items = AllItems(result[1]),
                               !._last_loaded = IF result[2] # <<>> THEN @ ELSE file.mtime],
     success |-> TRUE,
     errors |-> result[2]]

\* lines 75-153, with self._cache_metadata already assigned: enumerate
\* raises TypeError on a number.  (A str or a dict under "lists" is not
\* among the files of the model.)
LoadListsData(self, file, lists_data) ==
    IF lists_data.t # "arr" THEN Failed(self, <<Msg_ErrorLoading>>)
    ELSE StoreValidated(self, file, LoadLists(lists_data.v, 0, <<>>, <<>>))

\* lines 59-73, on the value json.load returned
LoadCacheValue(self, file, cache_data) ==
    IF cache_data.t = "arr"
    THEN LoadListsData([self EXCEPT !._cache_metadata = [none |-> TRUE]], file, cache_data)
    ELSE IF cache_data.t # "obj" THEN Failed(self, <<Msg_ErrorLoading>>)
    ELSE IF Get(cache_data, Key_metadata, EmptyObj).t # "obj"
    THEN Failed(self, <<Msg_ErrorLoading>>)
    ELSE LoadListsData(
             [self EXCEPT !._cache_metadata =
                                CacheMetadataOf(Get(cache_data, Key_metadata, EmptyObj))],
             file, Get(cache_data, Key_lists, EmptyArr))

\* DataLoader.load_cache_data on the self as it is: the self after the
\* call and the returned (success, error_messages)
DataLoader_load_cache_data(self, file) ==
    IF ~validate_cache_file(file)[1] THEN Failed(self, validate_cache_file(file)[2])
    ELSE IF ~IsJson(file.tokens) THEN Failed(self, <<Msg_InvalidJson>>)
    ELSE LoadCacheValue(self, file, json_loads(file.tokens))

\* DataLoader.is_cache_fresh
is_cache_fresh(self, file) ==
    IF ~file.exists THEN FALSE ELSE file.mtime <= self._last_loaded

\* another program writes the cache file
WriteCacheFile ==
    /\ pc = "loader"
    /\ clock < MaxClock
    /\ \E t \in CacheRewrites :
           cache_file' = [exists |-> TRUE, readable |-> TRUE, mtime |-> clock, tokens |-> t]
    /\ clock' = clock + 1
    /\ UNCHANGED <<data_loader, load_result, loadOther>>

\* the cache file is deleted
RemoveCacheFile ==
    /\ pc = "loader"
    /\ cache_file.exists
    /\ cache_file' = NoFile
    /\ UNCHANGED <<clock, data_loader, load_result, loadOther>>

\* the permissions of the cache file change; st_mtime does not
ChmodCacheFile ==
    /\ pc = "loader"
    /\ cache_file.exists
    /\ cache_file' = [cache_file EXCEPT !.readable = ~@]
    /\ UNCHANGED <<clock, data_loader, load_result, loadOther>>

Returned(outcome) ==
    /\ data_loader' = outcome.self
    /\ load_result' = [called |-> TRUE, success |-> outcome.success,
                       errors |-> outcome.errors, file |-> cache_file]

ReloadCacheData ==
    /\ pc = "loader"
    /\ Returned(DataLoader_load_cache_data(data_loader, cache_file))
    /\ UNCHANGED <<cache_file, clock, loadOther>>

NextLoad == WriteCacheFile \/ RemoveCacheFile \/ ChmodCacheFile \/ ReloadCacheData

SpecLoad == InitLoad /\ [][NextLoad]_vars

\* the "lists" of a cache file, as JSON values
ListsOf(tokens) ==
    IF json_loads(tokens).t = "arr" THEN json_loads(tokens).v
    ELSE Get(json_loads(tokens), Key_lists, EmptyArr).v

\* a cache file whose records have the types of the schema: the lists are
\* dicts and "items", where there is one, is a list of dicts
TypedList(list) ==
    /\ list.t = "obj"
    /\ Key_items \in DOMAIN list.v =>
           /\ list.v[Key_items].t = "arr"
           /\ \A j \in DOMAIN list.v[Key_items].v : list.v[Key_items].v[j].t = "obj"
TypedCache(file) ==
    /\ file.exists /\ file.readable /\ file.tokens # <<>> /\ IsJson(file.tokens)
    /\ json_loads(file.tokens).t \in {"arr", "obj"}
    /\ json_loads(file.tokens).t = "obj" =>
           /\ Get(json_loads(file.tokens), Key_metadata, EmptyObj).t = "obj"
           /\ Get(json_loads(file.tokens), Key_lists, EmptyArr).t = "arr"
    /\ \A i \in DOMAIN ListsOf(file.tokens) : TypedList(ListsOf(file.tokens)[i])

ItemDefective(item) ==
    \/ Key_title \notin DOMAIN item.v
    \/ Key_tags \in DOMAIN item.v /\ item.v[Key_tags].t # "arr"
    \/ Key_sections \in DOMAIN item.v /\ item.v[Key_sections].t # "arr"
ListDefective(list) == Key_topic \notin DOMAIN list.v \/ Key_items \notin DOMAIN list.v
ItemKept(item) == ~ItemDefective(item)
ListKept(list) == ~ListDefective(list)

\* the records of the lists and items that have no defect, in order
LoadableItems(list) ==
    LET kept == SelectSeq(list.v[Key_items].v, ItemKept)
    IN  [j \in DOMAIN kept |-> LoadedItem(kept[j], list)]
LoadableLists(lists) ==
    LET kept == SelectSeq(lists, ListKept)
    IN  [i \in DOMAIN kept |->
            [topic |-> Plain(kept[i].v[Key_topic]),
             items |-> LoadableItems(kept[i]),
             source_file |-> Plain(Get(kept[i], Key_source_file, StrValue(Msg_Unknown)))]]

\* a message of load_result is about list i ("List i: ...") or about its
\* item j ("List i, Item j: ...")
HasMessage(context) ==
    \E n \in DOMAIN load_result.errors : StartsWith(load_result.errors[n], context \o <<":">>)
ListContext(i) == Msg_List \o IntToText(i - 1)
ItemContext(i, j) == ListContext(i) \o Msg_Item \o IntToText(j - 1)

C29_FreshAfterSuccess ==
    (/\ load_result.called /\ load_result.success
     /\ cache_file.exists /\ cache_file.mtime = load_result.file.mtime)
        => is_cache_fresh(data_loader, cache_file)

\* C30: a load_cache_data that returns failure leaves the self as it was
C30_FailureKeepsState ==
    [][(ReloadCacheData /\ ~load_result'.success) => data_loader' = data_loader]_vars

(***************************************************************************)
(* The filter dialogs over the application's FilterManager                 *)
(* (app/app/tag_filter.py, app/app/topic_filter.py, opened by              *)
(* AwesomeListApp.action_open_tag_filter and action_open_topic_filter).    *)
(* A dialog is modal: while it is open the manager is changed through it   *)
(* alone.  dialog.current is _current_selections; dialog.initial is        *)
(* _initial_selected_tags or _initial_selected_topics; dialog.at_open      *)
(* keeps, for the properties, the manager's selections and mode at the     *)
(* time the dialog was built.                                              *)
(***************************************************************************)
InitDialog ==
    /\ pc = "app"
    /\ _all_items \in ItemLists
    /\ \E exclude \in FilterExcludeOptions : _exclude_tags = Range(exclude)
    /\ _items = _filter_excluded_tags(_exclude_tags, _all_items)
    /\ _selected_tags = {}
    /\ _selected_topics = {}
    /\ _filter_mode = "or"
    /\ _tag_counts = _build_tag_counts(_items)
    /\ _topic_counts = _build_topic_counts(_items)
    /\ _filtered_items = _items
    /\ _search_filtered_items = <<>>
    /\ dialog = [open |-> "none"]
    /\ IdleList
    /\ IdleLog
    /\ IdleLoad
    /\ IdleBatch
    /\ IdleWalk
    /\ IdleNormalize
    /\ IdleInherit
    /\ IdleHeadings
    /\ IdleFrontmatter
    /\ IdleItem
    /\ IdleDocument

dialogOther ==
    <<pc, normVars, inheritVars, headingVars, frontVars, itemVars, document, batchVars,
      walkVars, listVars, logVars, loadVars>>

\* the manager as the application changes it while no dialog is open
UseFilterManager ==
    /\ dialog.open = "none"
    /\ AddTagFilter \/ AddTopicFilter \/ ToggleFilterMode

AtOpen == [tags |-> _selected_tags', topics |-> _selected_topics', mode |-> _filter_mode']

\* action_open_tag_filter: update_items(self.items) when the application has
\* items, then TagFilter(filter_manager) and its on_mount
OpenTagFilter ==
    /\ dialog.open = "none"
    /\ \E items \in ItemLists :
           IF items # <<>> THEN update_items(items) ELSE UNCHANGED filterVars
    /\ dialog' = [open |-> "tags",
                  initial |-> _selected_tags',
                  current |-> [t \in DOMAIN _tag_counts' |-> t \in _selected_tags'],
                  at_open |-> AtOpen]
    /\ UNCHANGED dialogOther

\* action_open_topic_filter
OpenTopicFilter ==
    /\ dialog.open = "none"
    /\ \E items \in ItemLists :
           IF items # <<>> THEN update_items(items) ELSE UNCHANGED filterVars
    /\ dialog' = [open |-> "topics",
                  initial |-> _selected_topics',
                  current |-> [t \in DOMAIN _topic_counts' |-> t \in _selected_topics'],
                  at_open |-> AtOpen]
    /\ UNCHANGED dialogOther

\* TagCheckbox.toggle and on_tag_filter_tag_toggled, and their topic twins
ToggleCurrent ==
    /\ dialog.open \in {"tags", "topics"}
    /\ \E t \in DOMAIN dialog.current :
           dialog' = [dialog EXCEPT !.current[t] = ~@]
    /\ UNCHANGED <<filterVars, dialogOther>>

\* action_clear_filters of either dialog
ClearSelections ==
    /\ dialog.open \in {"tags", "topics"}
    /\ dialog' = [dialog EXCEPT !.current = [t \in DOMAIN dialog.current |-> FALSE]]
    /\ UNCHANGED <<filterVars, dialogOther>>

\* TagFilter.action_toggle_filter_mode
TagToggleFilterMode ==
    /\ dialog.open = "tags"
    /\ toggle_filter_mode
    /\ UNCHANGED <<dialog, dialogOther>>

\* TopicFilter.action_toggle_filter_mode: a no-op
TopicToggleFilterMode ==
    /\ dialog.open = "topics"
    /\ UNCHANGED vars

\* the selected tags after add_tag_filter (when wanted[t]) or
\* remove_tag_filter on every tag of wanted
TagsApplied(wanted) ==
    (_selected_tags \ DOMAIN wanted)
        \cup {t \in DOMAIN wanted : wanted[t] /\ t \in DOMAIN _tag_counts}
TopicsApplied(wanted) ==
    (_selected_topics \ DOMAIN wanted)
        \cup {t \in DOMAIN wanted : wanted[t] /\ t \in DOMAIN _topic_counts}

Closed(how) == [open |-> "none", closed |-> how]

\* TagFilter.action_ok
TagOk ==
    /\ dialog.open = "tags"
    /\ IF DOMAIN dialog.current = {} THEN UNCHANGED filterVars
       ELSE Refilter(TagsApplied(dialog.current), _selected_topics, _filter_mode,
                     _search_filtered_items)
    /\ dialog' = Closed("ok")
    /\ UNCHANGED dialogOther

\* TagFilter.action_cancel: remove_tag_filter, then add_tag_filter when the
\* tag was selected at first, on every tag of _current_selections
TagCancel ==
    /\ dialog.open = "tags"
    /\ IF DOMAIN dialog.current = {} THEN UNCHANGED filterVars
       ELSE Refilter(TagsApplied([t \in DOMAIN dialog.current |-> t \in dialog.initial]),
                     _selected_topics, _filter_mode, _search_filtered_items)
    /\ dialog' = Closed("cancel")
    /\ UNCHANGED dialogOther

\* TopicFilter.action_ok
TopicOk ==
    /\ dialog.open = "topics"
    /\ IF DOMAIN dialog.current = {} THEN UNCHANGED filterVars
       ELSE Refilter(_selected_tags, TopicsApplied(dialog.current), _filter_mode,
                     _search_filtered_items)
    /\ dialog' = Closed("ok")
    /\ UNCHANGED dialogOther

\* TopicFilter.action_cancel
TopicCancel ==
    /\ dialog.open = "topics"
    /\ IF DOMAIN dialog.current = {} THEN UNCHANGED filterVars
       ELSE Refilter(_selected_tags,
                     TopicsApplied([t \in DOMAIN dialog.current |-> t \in dialog.initial]),
                     _filter_mode, _search_filtered_items)
    /\ dialog' = Closed("cancel")
    /\ UNCHANGED dialogOther

NextDialog ==
    \/ UseFilterManager
    \/ OpenTagFilter \/ OpenTopicFilter
    \/ ToggleCurrent \/ ClearSelections
    \/ TagToggleFilterMode \/ TopicToggleFilterMode
    \/ TagOk \/ TagCancel \/ TopicOk \/ TopicCancel

SpecDialog == InitDialog /\ [][NextDialog]_vars

\* C26: after action_cancel of either dialog the selected tags, the selected
\* topics and the filter mode are those of the time the dialog was opened
C26_CancelRestores ==
    [][(TagCancel \/ TopicCancel) =>
          /\ _selected_tags' = dialog.at_open.tags
          /\ _selected_topics' = dialog.at_open.topics
          /\ _filter_mode' = dialog.at_open.mode]_vars

(***************************************************************************)
(* CacheManagementModal.operation_log (app/app/cache_management.py).  The  *)
(* modal has logged at most MaxLogStart messages of LogPool; every later   *)
(* message is, as in the test, "Message n" for the n-th call.  log_added   *)
(* keeps every message ever handed to add_log_message.                     *)
(***************************************************************************)
MAX_LOG_MESSAGES == 20
MaxLogStart == 3
MaxLogCalls == 22

Msg_Message == <<"M","e","s","s","a","g","e"," ">>      \* "Message "
Log_Ok == <<"o","k">>
Log_Failed == <<"f","a","i","l","e","d">>
LogPool == {Log_Ok, Log_Failed}

InitLog ==
    /\ pc = "modal"
    /\ operation_log \in SeqsUpTo(LogPool, MaxLogStart)
    /\ log_added = operation_log
    /\ IdleList
    /\ IdleDialog
    /\ IdleLoad
    /\ IdleBatch
    /\ IdleFilter
    /\ IdleWalk
    /\ IdleNormalize
    /\ IdleInherit
    /\ IdleHeadings
    /\ IdleFrontmatter
    /\ IdleItem
    /\ IdleDocument

logOther ==
    <<pc, normVars, inheritVars, headingVars, frontVars, itemVars, document, batchVars,
      filterVars, walkVars, listVars, dialogVars, loadVars>>

\* add_log_message that keeps one message more than the limit
add_log_message_one_more(log, message) ==
    IF Len(Append(log, message)) > MAX_LOG_MESSAGES + 1
    THEN SubSeq(Append(log, message), Len(log) - MAX_LOG_MESSAGES + 1, Len(log) + 1)
    ELSE Append(log, message)

\* add_log_message: the new operation_log
add_log_message(log, message) ==
    IF Len(Append(log, message)) > MAX_LOG_MESSAGES
    THEN SubSeq(Append(log, message), Len(log) + 2 - MAX_LOG_MESSAGES, Len(log) + 1)
    ELSE Append(log, message)

AddLogMessage ==
    /\ pc = "modal"
    /\ Len(log_added) < MaxLogCalls
    /\ operation_log' = add_log_message(operation_log, Msg_Message \o IntToText(Len(log_added)))
    /\ log_added' = Append(log_added, Msg_Message \o IntToText(Len(log_added)))
    /\ UNCHANGED logOther

NextLog == AddLogMessage

SpecLog == InitLog /\ [][NextLog]_vars

\* C27: operation_log holds at most 20 entries, and they are the last
\* messages handed to add_log_message, in the order they were added
C27_LogIsLastMessages ==
    /\ Len(operation_log) <= MAX_LOG_MESSAGES
    /\ Len(operation_log) = Min({Len(log_added), MAX_LOG_MESSAGES})
    /\ operation_log = SubSeq(log_added, Len(log_added) - Len(operation_log) + 1,
                              Len(log_added))

\* more than 20 messages have been added and the oldest are gone
C27_Witness ==
    /\ Len(log_added) = MaxLogCalls
    /\ Len(operation_log) = MAX_LOG_MESSAGES
    /\ operation_log[1] = log_added[MaxLogCalls - MAX_LOG_MESSAGES + 1]
    /\ operation_log[1] # log_added[1]

\* C28: right after set_search_results(R), every item get_filtered_items
\* returns is an item of R; so no item is returned when R is empty
C28_FilteredWithinSearchResults ==
    [][SetSearchResults =>
          \A n \in DOMAIN _filtered_items' :
              InList(_filtered_items'[n], _search_filtered_items')]_vars

====
